---- MODULE Spec2Model ----
(***************************************************************************)
(* Session recording and flow-graph assembly of agent/modeler:             *)
(* events.py (DomSnapshot), selectors.py (SelectorMiner), llm.py           *)
(* (FlowAnnotator, FlowChartGenerator, FlowChartEditor), graph.py          *)
(* (FlowGraph), recorder.py (SessionRecorder), session_manager.py          *)
(* (SessionManager) and the flow chart handlers of service.py.             *)
(*                                                                         *)
(* Conventions.  A Python str that the code builds or inspects character   *)
(* by character (selector values, DOM text) is a sequence of one-character *)
(* strings; the literal fragments of an f-string are single tokens.  A     *)
(* Python None in such a field is NoneStr.  Node ids are plain strings and *)
(* None is the string "None".  Scores and confidences are the Python       *)
(* floats multiplied by 10 (1.1 is 11).  Python dicts are functions; the   *)
(* insertion order of FlowGraph._nodes is kept in nodeKeys.  Node ids are   *)
(* the event ids the recorder hands to add_node (recorder.py:57 replaces   *)
(* an empty or missing event_id by a uuid), so they are never empty.       *)
(* DomSnapshot.data_attributes is read by none of the modelled code and is *)
(* left out.  weight_css - 0.1 is weight_css - 1 in tenths: the weight     *)
(* configurations used keep it apart from every other score, as the float  *)
(* rounding of the subtraction does.                                       *)
(***************************************************************************)
EXTENDS Integers, Sequences, FiniteSets, TLC

VARIABLES graph, order, config, last, log, budget, call, sessions, flowchart,
          automations, runs, clock, legacy_session_id

vars ==
    <<graph, order, config, last, log, budget, call, sessions, flowchart,
      automations, runs, clock, legacy_session_id>>

\* ---------------------------------------------------------------- bounds
\* calls of record_browser_use_event, edge edits and prunes explored by Spec
MaxOrder == 2
MaxEdits == 1
MaxPrunes == 1
\* the same for SpecDeep (two edits in a row) and SpecRec (a record after a prune)
MaxEditsDeep == 2
MaxOrderRec == 3
MaxPatches == 1
\* sessions created in SpecSessions
MaxSessions == 2
\* flow chart generations and edits in SpecChart
MaxCharts == 2
\* automations created and runs launched; in SpecProgress, the calls of the
\* manager that change an automation or a run
MaxAutomations == 1
MaxRuns == 1
MaxCalls == 4

\* ------------------------------------------------------- values and helpers
None == "None"
NoError == "none"
NoneStr == <<"<None>">>
Ids == {"a", "b", "c"}
\* the ids SpecAll records and edits
EditIds == {"a", "b"}
EmptyMap == [x \in {} |-> None]

TruthyId(x) == x # None /\ x # ""
TruthyStr(s) == s # NoneStr /\ s # <<>>
InSeq(x, s) == \E i \in 1..Len(s) : s[i] = x
Range(s) == {s[i] : i \in 1..Len(s)}

RECURSIVE SelectSeqNotIn(_, _)
SelectSeqNotIn(s, drop) ==
    IF s = <<>> THEN <<>>
    ELSE (IF Head(s) \in drop THEN <<>> ELSE <<Head(s)>>) \o SelectSeqNotIn(Tail(s), drop)

IndexOf(x, s) == CHOOSE i \in 1..Len(s) : s[i] = x /\ \A j \in 1..(i - 1) : s[j] # x
RemoveFirst(s, x) ==
    LET i == IndexOf(x, s) IN SubSeq(s, 1, i - 1) \o SubSeq(s, i + 1, Len(s))

SetDefault(m, k, d) == IF k \in DOMAIN m THEN m ELSE (k :> d) @@ m
DictGet(m, k, d) == IF k \in DOMAIN m THEN m[k] ELSE d
Restrict(m, keep) == [k \in (DOMAIN m) \cap keep |-> m[k]]

\* ------------------------------------------------------------- FlowGraph
EmptyGraph ==
    [nodes |-> EmptyMap, nodeKeys |-> <<>>, edges |-> EmptyMap,
     entry |-> None, tail |-> None]

\* graph.py:53-54, the auto-chain of add_node (the tail has an adjacency entry)
ChainNever(edges1, tl, id) == edges1
Chain(edges1, tl, id) ==
    IF TruthyId(tl) /\ ~InSeq(id, edges1[tl])
    THEN [edges1 EXCEPT ![tl] = Append(@, id)]
    ELSE edges1

add_node_moves_entry(g, node) ==
    LET id == node.node_id
        g1 == [nodes |-> (id :> node) @@ g.nodes,
               nodeKeys |-> IF id \in DOMAIN g.nodes THEN g.nodeKeys
                            ELSE Append(g.nodeKeys, id),
               edges |-> SetDefault(g.edges, id, <<>>),
               entry |-> id,
               tail |-> g.tail]
    IN  IF TruthyId(g.tail) /\ g.tail \notin DOMAIN g1.edges
        THEN [graph |-> g1, raised |-> "KeyError"]
        ELSE [graph |-> [g1 EXCEPT !.edges = Chain(g1.edges, g.tail, id), !.tail = id],
              raised |-> NoError]
add_node(g, node) ==
    LET id == node.node_id
        g1 == [nodes |-> (id :> node) @@ g.nodes,
               nodeKeys |-> IF id \in DOMAIN g.nodes THEN g.nodeKeys
                            ELSE Append(g.nodeKeys, id),
               edges |-> SetDefault(g.edges, id, <<>>),
               entry |-> IF g.entry = None THEN id ELSE g.entry,
               tail |-> g.tail]
    IN  IF TruthyId(g.tail) /\ g.tail \notin DOMAIN g1.edges
        THEN [graph |-> g1, raised |-> "KeyError"]
        ELSE [graph |-> [g1 EXCEPT !.edges = Chain(g1.edges, g.tail, id), !.tail = id],
              raised |-> NoError]

connect(g, source_id, target_id) ==
    LET edges1 == SetDefault(g.edges, source_id, <<>>)
    IN  [g EXCEPT !.edges =
            IF ~InSeq(target_id, edges1[source_id])
            THEN [edges1 EXCEPT ![source_id] = Append(@, target_id)]
            ELSE edges1]

remove_edge(g, source_id, target_id) ==
    LET neighbours == DictGet(g.edges, source_id, <<>>)
    IN  IF InSeq(target_id, neighbours)
        THEN [g EXCEPT !.edges[source_id] = RemoveFirst(neighbours, target_id)]
        ELSE g

rewire(g, source_id, old_target, new_target) ==
    LET neighbours == DictGet(g.edges, source_id, <<>>)
    IN  IF InSeq(old_target, neighbours)
        THEN [g EXCEPT !.edges[source_id] =
                [neighbours EXCEPT ![IndexOf(old_target, neighbours)] = new_target]]
        ELSE g

\* graph.py:102-106, _collect: depth-first over the successor lists, acc is
\* the visited set; i is the position in start's successor list
RECURSIVE collect(_, _, _, _)
collect(g, start, i, acc) ==
    LET targets == DictGet(g.edges, start, <<>>)
    IN  IF i > Len(targets) THEN acc
        ELSE IF targets[i] \in acc THEN collect(g, start, i + 1, acc)
        ELSE collect(g, start, i + 1, collect(g, targets[i], 1, acc \cup {targets[i]}))

Discard(g, node_id) == collect(g, node_id, 1, {})

\* the same traversal with its bookkeeping: marked lists the acc.add(nxt)
\* calls and calls the _collect(nxt, acc) calls, both in the order made
RECURSIVE collect_forgetful(_, _, _, _)
collect_forgetful(g, start, i, st) ==
    LET targets == DictGet(g.edges, start, <<>>)
    IN  IF i > Len(targets) THEN st
        ELSE IF targets[i] \in st.acc /\ Len(st.marked) > Cardinality(DOMAIN g.edges)
        THEN collect_forgetful(g, start, i + 1, st)
        ELSE collect_forgetful(g, start, i + 1,
                 collect_forgetful(g, targets[i], 1,
                     [acc |-> st.acc \cup {targets[i]},
                      marked |-> Append(st.marked, targets[i]),
                      calls |-> Append(st.calls, targets[i])]))
RECURSIVE collect_visits(_, _, _, _)
collect_visits(g, start, i, st) ==
    LET targets == DictGet(g.edges, start, <<>>)
    IN  IF i > Len(targets) THEN st
        ELSE IF targets[i] \in st.acc THEN collect_visits(g, start, i + 1, st)
        ELSE collect_visits(g, start, i + 1,
                 collect_visits(g, targets[i], 1,
                     [acc |-> st.acc \cup {targets[i]},
                      marked |-> Append(st.marked, targets[i]),
                      calls |-> Append(st.calls, targets[i])]))

\* graph.py:108-109: discard = set(); _collect(node_id, discard)
TraversalForgetful(g, node_id) ==
    collect_forgetful(g, node_id, 1,
                      [acc |-> {}, marked |-> <<>>, calls |-> <<node_id>>])
Traversal(g, node_id) ==
    collect_visits(g, node_id, 1, [acc |-> {}, marked |-> <<>>, calls |-> <<node_id>>])

\* graph.py:113-116, the dangling successor references are stripped
StripNothing(targets, discard) == targets
StripTargets(targets, discard) == SelectSeqNotIn(targets, discard)

prune_after(g, node_id) ==
    LET discard == Discard(g, node_id)
        keep == (DOMAIN g.edges) \ discard
    IN  [nodes |-> Restrict(g.nodes, (DOMAIN g.nodes) \ discard),
         nodeKeys |-> SelectSeqNotIn(g.nodeKeys, discard),
         edges |-> [s \in keep |-> StripTargets(g.edges[s], discard)],
         entry |-> g.entry,
         tail |-> IF g.tail \in discard THEN node_id ELSE g.tail]

\* update_node: KeyError when node_id is absent; None leaves a field alone
update_node_silent(g, node_id, selectors, intent) ==
    IF node_id \notin DOMAIN g.nodes THEN [graph |-> g, raised |-> NoError]
    ELSE [graph |-> [g EXCEPT !.nodes[node_id].selectors =
                                 IF selectors # <<>> THEN selectors[1] ELSE @,
                              !.nodes[node_id].intent =
                                 IF intent # <<>> THEN intent[1] ELSE @],
          raised |-> NoError]
update_node_replaces(g, node_id, selectors, intent) ==
    IF node_id \notin DOMAIN g.nodes THEN [graph |-> g, raised |-> "KeyError"]
    ELSE [graph |-> [g EXCEPT !.nodes[node_id].selectors =
                                 IF selectors # <<>> THEN selectors[1] ELSE <<>>,
                              !.nodes[node_id].intent =
                                 IF intent # <<>> THEN intent[1] ELSE @],
          raised |-> NoError]
update_node(g, node_id, selectors, intent) ==
    IF node_id \notin DOMAIN g.nodes THEN [graph |-> g, raised |-> "KeyError"]
    ELSE [graph |-> [g EXCEPT !.nodes[node_id].selectors =
                                 IF selectors # <<>> THEN selectors[1] ELSE @,
                              !.nodes[node_id].intent =
                                 IF intent # <<>> THEN intent[1] ELSE @],
          raised |-> NoError]

\* FlowGraph.nodes: the values of the _nodes dict, in the order of its keys
\* (a key keeps its place when its value is replaced)
graph_nodes(g) == [i \in 1..Len(g.nodeKeys) |-> g.nodes[g.nodeKeys[i]]]

\* FlowIntent.to_payload (events.py:100-106)
to_payload(intent) ==
    [summary |-> intent.summary, semantic_action |-> intent.semantic_action,
     user_value |-> intent.user_value, confidence |-> intent.confidence]

\* FlowNode.to_dict: occurred_at and dom_snapshot are not part of the projection
node_to_dict(node) ==
    [node_id |-> node.node_id,
     event |-> [event_id |-> node.event.event_id,
                order |-> node.event.order,
                type |-> node.event.type,
                url |-> node.event.context.url,
                frame |-> node.event.context.frame,
                title |-> node.event.context.title,
                payload |-> node.event.payload],
     selectors |-> node.selectors,
     intent |-> to_payload(node.intent),
     metadata |-> node.metadata]

\* FlowGraph.to_dict: _tail is not part of the dict
\* graph.py:73-74: the entry node, <<>> for None
entry_node(g) ==
    IF TruthyId(g.entry) /\ g.entry \in DOMAIN g.nodes THEN <<g.nodes[g.entry]>>
    ELSE <<>>

to_dict_first_successor(g) ==
    [entry |-> g.entry,
     nodes |-> [id \in DOMAIN g.nodes |-> node_to_dict(g.nodes[id])],
     edges |-> [s \in DOMAIN g.edges |->
                  IF g.edges[s] = <<>> THEN <<>> ELSE <<g.edges[s][1]>>]]
to_dict(g) ==
    [entry |-> g.entry,
     nodes |-> [id \in DOMAIN g.nodes |-> node_to_dict(g.nodes[id])],
     edges |-> g.edges]

\* ------------------------------------------------------------ DomSnapshot
from_browser_use_payload(dom) ==
    [tag |-> IF dom.tag = NoneStr THEN <<"d", "i", "v">> ELSE dom.tag,
     id |-> dom.attributes.id,
     classes |-> dom.classList,
     role |-> dom.attributes.role,
     name |-> dom.accessibleName,
     text |-> dom.innerText,
     xpath |-> dom.xpath,
     css_path |-> dom.cssPath]

\* ---------------------------------------------------------- SelectorMiner
ExplicitScoreLow == 10 - 1
ExplicitScore == 11
MaxTextLen == 80
MaxClasses == 3
DefaultWeights == [weight_id |-> 10, weight_role |-> 9, weight_text |-> 7, weight_css |-> 3]

SelectorCandidate(value, score, origin) ==
    [value |-> value, score |-> score, origin |-> origin]

IsSpace(c) == c \in {" ", "\t", "\n"}
RECURSIVE LStrip(_)
LStrip(s) == IF s # <<>> /\ IsSpace(Head(s)) THEN LStrip(Tail(s)) ELSE s
RECURSIVE RStrip(_)
RStrip(s) ==
    IF s # <<>> /\ IsSpace(s[Len(s)]) THEN RStrip(SubSeq(s, 1, Len(s) - 1)) ELSE s
Strip(s) == RStrip(LStrip(s))
Replace(s, old, new) == [i \in 1..Len(s) |-> IF s[i] = old THEN new ELSE s[i]]

RECURSIVE Join(_, _)
Join(parts, sep) ==
    IF parts = <<>> THEN <<>>
    ELSE IF Len(parts) = 1 THEN parts[1]
    ELSE parts[1] \o sep \o Join(Tail(parts), sep)

\* selectors.py:36-60, the candidates in generation order
Generate(snapshot, explicit_selector, w) ==
    LET text == Replace(Strip(snapshot.text), "'", "'")
        class_selector ==
            Join(SubSeq(snapshot.classes, 1,
                        IF Len(snapshot.classes) < MaxClasses
                        THEN Len(snapshot.classes) ELSE MaxClasses), <<".">>)
    IN  (IF TruthyStr(explicit_selector)
         THEN <<SelectorCandidate(explicit_selector, ExplicitScore, "browser_use")>>
         ELSE <<>>)
        \o (IF TruthyStr(snapshot.id)
            THEN <<SelectorCandidate(<<"#">> \o snapshot.id, w.weight_id, "dom_id")>>
            ELSE <<>>)
        \o (IF TruthyStr(snapshot.role) /\ TruthyStr(snapshot.name)
            THEN <<SelectorCandidate(
                     <<"getByRole('">> \o snapshot.role \o <<"', { name: '">>
                        \o snapshot.name \o <<"' })">>,
                     w.weight_role, "aria_role")>>
            ELSE <<>>)
        \o (IF TruthyStr(snapshot.text) /\ 0 < Len(text) /\ Len(text) <= MaxTextLen
            THEN <<SelectorCandidate(<<"getByText('">> \o text \o <<"')">>,
                                     w.weight_text, "text")>>
            ELSE <<>>)
        \o (IF TruthyStr(snapshot.css_path)
            THEN <<SelectorCandidate(snapshot.css_path, w.weight_css, "css_path")>>
            ELSE IF snapshot.classes # <<>> /\ class_selector # <<>>
            THEN <<SelectorCandidate(snapshot.tag \o <<".">> \o class_selector,
                                     w.weight_css, "classlist")>>
            ELSE <<>>)
        \o (IF TruthyStr(snapshot.xpath)
            THEN <<SelectorCandidate(snapshot.xpath, w.weight_css - 1, "xpath")>>
            ELSE <<>>)

\* sorted(candidates, key=score, reverse=True): stable, descending
InsertDesc(sorted, c) ==
    LET k == Cardinality({i \in 1..Len(sorted) : sorted[i].score >= c.score})
    IN  SubSeq(sorted, 1, k) \o <<c>> \o SubSeq(sorted, k + 1, Len(sorted))
RECURSIVE SortFrom(_, _, _)
SortFrom(cands, i, acc) ==
    IF i > Len(cands) THEN acc ELSE SortFrom(cands, i + 1, InsertDesc(acc, cands[i]))
Sorted(cands) == SortFrom(cands, 1, <<>>)

\* selectors.py:61-66, the first occurrence of each value is kept
RECURSIVE UniqueFrom(_, _, _)
UniqueFrom(cands, i, unique) ==
    IF i > Len(cands) THEN unique
    ELSE IF cands[i].value \in {unique[j].value : j \in 1..Len(unique)}
    THEN UniqueFrom(cands, i + 1, unique)
    ELSE UniqueFrom(cands, i + 1, Append(unique, cands[i]))
KeepAll(cands) == cands
Unique(cands) == UniqueFrom(cands, 1, <<>>)

rank(snapshot, explicit_selector, w) ==
    Unique(Sorted(Generate(snapshot, explicit_selector, w)))

mine(event, w) ==
    IF event.dom_snapshot = <<>> THEN <<>>
    ELSE rank(event.dom_snapshot[1], event.payload.selector, w)

\* ---------------------------------------------------------- FlowAnnotator
short_description(event) ==
    LET snap == event.dom_snapshot
        ident == IF snap = <<>> THEN <<>>
                 ELSE IF TruthyStr(snap[1].id) THEN snap[1].id
                 ELSE IF TruthyStr(snap[1].name) THEN snap[1].name
                 ELSE <<>>
        target == IF snap = <<>> THEN <<>>
                  ELSE Strip(<<" ">> \o snap[1].tag \o <<" ">> \o ident)
    IN  <<event.type>> \o (IF target # <<>> THEN <<" -> ">> \o target ELSE <<>>)

FlowIntent(summary, semantic_action, user_value, confidence) ==
    [summary |-> summary, semantic_action |-> semantic_action,
     user_value |-> user_value, confidence |-> confidence]

\* What the LLM call did: it raised ("raise": transport failure, timeout, no
\* client library), returned no text block ("no_text"), returned text that
\* _loads_best_effort cannot decode ("unparsable"), returned JSON that is not
\* an object ("not_object"), or returned a JSON object ("parsed").  A JSON
\* value float() accepts is Number(tenths); null and non-numeric text are not.
Number(tenths) == [kind |-> "number", tenths |-> tenths]
JsonNull == [kind |-> "null"]
JsonText == [kind |-> "text"]

\* llm.py:118-136: every failure inside becomes the 0.3 fallback
parse_response_half(reply, fallback_summary) ==
    LET fallback == FlowIntent(fallback_summary, NoneStr, NoneStr, 5)
    IN  IF reply.kind \in {"no_text", "unparsable", "not_object"} THEN fallback
        ELSE LET parsed == reply.parsed
                 confidence == DictGet(parsed, "confidence", Number(5))
             IN  IF confidence.kind # "number" THEN fallback
                 ELSE FlowIntent(DictGet(parsed, "summary", fallback_summary),
                                 DictGet(parsed, "semantic_action", NoneStr),
                                 DictGet(parsed, "user_value", NoneStr),
                                 confidence.tenths)
parse_response(reply, fallback_summary) ==
    LET fallback == FlowIntent(fallback_summary, NoneStr, NoneStr, 3)
    IN  IF reply.kind \in {"no_text", "unparsable", "not_object"} THEN fallback
        ELSE LET parsed == reply.parsed
                 confidence == DictGet(parsed, "confidence", Number(5))
             IN  IF confidence.kind # "number" THEN fallback
                 ELSE FlowIntent(DictGet(parsed, "summary", fallback_summary),
                                 DictGet(parsed, "semantic_action", NoneStr),
                                 DictGet(parsed, "user_value", NoneStr),
                                 confidence.tenths)

\* llm.py:48-58
annotate_always_calls(event, api_key, reply) ==
    LET base_summary == short_description(event)
    IN  IF reply.kind = "raise" THEN FlowIntent(base_summary, NoneStr, NoneStr, 1)
        ELSE parse_response(reply, base_summary)
annotate(event, api_key, reply) ==
    LET base_summary == short_description(event)
    IN  IF ~api_key THEN FlowIntent(base_summary, NoneStr, NoneStr, 2)
        ELSE IF reply.kind = "raise" THEN FlowIntent(base_summary, NoneStr, NoneStr, 1)
        ELSE parse_response(reply, base_summary)

\* ------------------------------------------------------- SessionRecorder
Lower(name) ==
    CASE name = "Click" -> "click"
      [] name = "GOTO" -> "goto"
      [] name = "LLM" -> "llm"
      [] name = "Hybrid" -> "hybrid"
      [] name = "Completed" -> "completed"
      [] OTHER -> name

resolve_action_type(payload) ==
    LET raw == IF payload.category # None /\ payload.category # "" THEN payload.category
               ELSE IF payload.type # None /\ payload.type # "" THEN payload.type
               ELSE "other"
        name == Lower(raw)
    IN  IF name \in {"click", "press"} THEN "click"
        ELSE IF name \in {"input", "type"} THEN "input"
        ELSE IF name \in {"navigate", "goto"} THEN "navigate"
        ELSE IF name \in {"wait", "wait_for"} THEN "wait_for"
        ELSE IF name \in {"assert", "verify"} THEN "assert"
        ELSE "other"

\* datetime.fromisoformat on the strings the payloads carry
FromIso ==
    ("2024-07-18T12:00:10" :> <<2024, 7, 18, 12, 0, 10>>)
    @@ ("2024-07-18" :> <<2024, 7, 18, 0, 0, 0>>)
IsoWellFormed(ts) == ts \in DOMAIN FromIso
UtcNow == [source |-> "utcnow", at |-> <<>>]

ParseFails(ts) == ts # None /\ ~IsoWellFormed(ts)

UuidOf == <<"u1", "u2", "u3", "u4", "u5", "u6">>

NextOrderFromLen(o, g) == Cardinality(DOMAIN g.nodes) + 1
NextOrder(o, g) == o + 1

\* recorder.py:45-65, after the timestamp was parsed
normalize_event(payload, ord) ==
    [event_id |-> IF TruthyId(payload.event_id) THEN payload.event_id ELSE UuidOf[ord],
     order |-> ord,
     occurred_at |-> IF payload.timestamp # None
                     THEN [source |-> "payload", at |-> FromIso[payload.timestamp]]
                     ELSE UtcNow,
     type |-> resolve_action_type(payload),
     context |-> [url |-> IF payload.url = None THEN "" ELSE payload.url,
                  frame |-> payload.frame, title |-> payload.title],
     dom_snapshot |-> IF payload.dom # <<>>
                      THEN <<from_browser_use_payload(payload.dom[1])>> ELSE <<>>,
     payload |-> payload.payload]

FlowNodeBestOnly(event, candidates, intent) ==
    [node_id |-> event.event_id,
     event |-> event,
     selectors |-> IF candidates = <<>> THEN <<>> ELSE <<candidates[1].value>>,
     intent |-> intent,
     metadata |-> [selector_candidates |-> candidates]]
FlowNode(event, candidates, intent) ==
    [node_id |-> event.event_id,
     event |-> event,
     selectors |-> [i \in 1..Len(candidates) |-> candidates[i].value],
     intent |-> intent,
     metadata |-> [selector_candidates |-> candidates]]

\* record_browser_use_event as a function of the recorder's state: the graph,
\* the counter and what was raised (the counter moves before anything can fail)
record_browser_use_event(g, o, cfg, payload, reply) ==
    LET ord == NextOrder(o, g)
    IN  IF ParseFails(payload.timestamp)
        THEN [graph |-> g, order |-> ord, raised |-> "ValueError", node |-> <<>>]
        ELSE LET event == normalize_event(payload, ord)
                 node == FlowNode(event, mine(event, cfg.weights),
                                  annotate(event, cfg.api_key, reply))
                 added == add_node(g, node)
             IN  [graph |-> added.graph, order |-> ord, raised |-> added.raised,
                  node |-> <<node>>]

\* ------------------------------------------------------- SessionManager
\* uuid4 of create_session: the n-th session gets the n-th id
SessionUuids == <<"s1", "s2", "s3", "s4">>

\* session_manager.py:58-72; the files hold what _write_recording and
\* _write_schema dump when they get no argument
create_session(ss, session_id, url) ==
    (session_id :>
        [url |-> url,
         recorder |-> [graph |-> EmptyGraph, order |-> 0],
         events |-> <<>>,
         recording_file |-> <<>>,
         schema_file |-> [entry |-> None, nodes |-> EmptyMap, edges |-> EmptyMap]])
    @@ ss

\* session_manager.py:89-98: KeyError for an unknown session; the recorder's
\* failure leaves the event log and the files as they were
record_event_shared(ss, session_id, cfg, payload, reply) ==
    IF session_id \notin DOMAIN ss
    THEN [sessions |-> ss, raised |-> "KeyError", node |-> <<>>]
    ELSE LET record == ss[session_id]
             r == record_browser_use_event(record.recorder.graph, record.recorder.order,
                                           cfg, payload, reply)
             recorder == [graph |-> r.graph, order |-> r.order]
             shared == [s \in DOMAIN ss |-> [ss[s] EXCEPT !.recorder = recorder]]
         IN  IF r.raised # NoError
             THEN [sessions |-> shared, raised |-> r.raised, node |-> <<>>]
             ELSE [sessions |->
                      [shared EXCEPT ![session_id] =
                          [record EXCEPT
                              !.recorder = recorder,
                              !.events = Append(record.events, payload),
                              !.recording_file = Append(record.events, payload),
                              !.schema_file = to_dict(r.graph)]],
                   raised |-> NoError, node |-> r.node]
record_event(ss, session_id, cfg, payload, reply) ==
    IF session_id \notin DOMAIN ss
    THEN [sessions |-> ss, raised |-> "KeyError", node |-> <<>>]
    ELSE LET record == ss[session_id]
             r == record_browser_use_event(record.recorder.graph, record.recorder.order,
                                           cfg, payload, reply)
             recorder == [graph |-> r.graph, order |-> r.order]
         IN  IF r.raised # NoError
             THEN [sessions |-> [ss EXCEPT ![session_id].recorder = recorder],
                   raised |-> r.raised, node |-> <<>>]
             ELSE [sessions |->
                      [ss EXCEPT ![session_id] =
                          [record EXCEPT
                              !.recorder = recorder,
                              !.events = Append(record.events, payload),
                              !.recording_file = Append(record.events, payload),
                              !.schema_file = to_dict(r.graph)]],
                   raised |-> NoError, node |-> r.node]

\* ------------------------------------- SessionManager: automations, runs
\* Timestamps are readings of the clock; a value that can be None is <<>> or
\* <<v>>; the file written for an automation or a run after every change
\* always equals the record kept in memory.
AutomationUuids == <<"m1", "m2", "m3">>
RunUuids == <<"r1", "r2", "r3", "r4">>
Decimal == <<"0", "1", "2", "3", "4", "5", "6", "7", "8", "9">>
Engines == {"deterministic", "llm", "hybrid"}

\* session_manager.py:165-176: the payload's keys win over the generated ones
create_automation(autos, automation_id, now, payload) ==
    (automation_id :>
        (payload @@ [automation_id |-> automation_id, created_at |-> now,
                     updated_at |-> now]))
    @@ autos

\* session_manager.py:223-227, one step of the run (index counts from 0)
run_step(step, index) ==
    LET mode == DictGet(step, "execution_mode", None)
    IN  ("execution_mode" :> Lower(IF TruthyId(mode) THEN mode ELSE "deterministic"))
        @@ SetDefault(SetDefault(step, "order", index + 1), "status", "pending")

\* session_manager.py:419-438 for a target_url without a query
build_launch_url(target_url, session_id, automation_id, run_id, engine) ==
    [url |-> target_url,
     query |-> (IF TruthyId(session_id) THEN [session |-> session_id] ELSE EmptyMap)
               @@ [automation_run |-> run_id, automation_id |-> automation_id,
                   automation_engine |-> engine]]

\* session_manager.py:218-220
resolve_engine_own(engine, automation) ==
    LET own_engine == DictGet(automation, "engine", None)
        lowered == Lower(IF TruthyId(own_engine) THEN own_engine ELSE "deterministic")
    IN  IF lowered \in Engines THEN lowered ELSE "deterministic"
resolve_engine(engine, automation) ==
    LET own_engine == DictGet(automation, "engine", None)
        lowered == Lower(IF TruthyId(engine) THEN engine
                         ELSE IF TruthyId(own_engine) THEN own_engine
                         ELSE "deterministic")
    IN  IF lowered \in Engines THEN lowered ELSE "deterministic"

CountMode(steps, mode) ==
    Cardinality({i \in 1..Len(steps) : steps[i].execution_mode = mode})

\* session_manager.py:214-327
run_automation_finished(autos, rs, ss, automation_id, engine, run_id, now) ==
    IF automation_id \notin DOMAIN autos
    THEN [automations |-> autos, runs |-> rs, raised |-> "KeyError", run |-> <<>>]
    ELSE
    LET automation == autos[automation_id]
        requested_engine == resolve_engine(engine, automation)
        steps_payload == DictGet(automation, "steps", <<>>)
        steps == [i \in 1..Len(steps_payload) |-> run_step(steps_payload[i], i - 1)]
        own_url == DictGet(automation, "target_url", None)
        session_id == DictGet(automation, "session_id", None)
        target_url == IF ~TruthyId(own_url) /\ session_id \in DOMAIN ss
                      THEN ss[session_id].url ELSE own_url
        launch_url == IF TruthyId(target_url)
                      THEN <<build_launch_url(target_url, session_id, automation_id,
                                              run_id, requested_engine)>>
                      ELSE <<>>
        updated == ("updated_at" :> now) @@ ("last_run_id" :> run_id) @@ automation
        name == DictGet(automation, "name", None)
        aborted == <<"Automation contains no executable steps; ",
                     "please add steps before running.">>
        initialised == <<"Automation initialised with ", Decimal[Len(steps) + 1],
                         " steps.">>
        run_record ==
            IF steps = <<>>
            THEN [run_id |-> run_id, automation_id |-> automation_id,
                  session_id |-> session_id, engine |-> requested_engine,
                  status |-> "failed", created_at |-> now, started_at |-> now,
                  completed_at |-> <<now>>, target_url |-> target_url,
                  launch_url |-> launch_url, steps_planned |-> 0,
                  steps_executed |-> 0, deterministic_steps |-> 0,
                  llm_steps |-> 0, hybrid_steps |-> 0, message |-> aborted,
                  logs |-> <<[timestamp |-> now, level |-> "error",
                              message |->
                                <<"Run aborted because no steps were available.">>]>>,
                  result |-> <<[success |-> FALSE, summary |-> aborted]>>,
                  steps |-> steps, progress |-> <<>>,
                  current_step_index |-> <<>>, completed_steps |-> <<>>,
                  automation_name |-> name, name |-> name]
            ELSE [run_id |-> run_id, automation_id |-> automation_id,
                  session_id |-> session_id, engine |-> requested_engine,
                  status |-> "succeeded", created_at |-> now, started_at |-> now,
                  completed_at |-> <<now>>, target_url |-> target_url,
                  launch_url |-> launch_url, steps_planned |-> Len(steps),
                  steps_executed |-> Len(steps),
                  deterministic_steps |-> CountMode(steps, "deterministic"),
                  llm_steps |-> CountMode(steps, "llm"),
                  hybrid_steps |-> CountMode(steps, "hybrid"),
                  message |-> initialised,
                  logs |-> <<[timestamp |-> now, level |-> "info",
                              message |-> initialised]>>,
                  result |-> <<>>,
                  steps |-> steps, progress |-> <<>>,
                  current_step_index |-> <<>>, completed_steps |-> <<>>,
                  automation_name |-> name, name |-> name]
    IN  [automations |-> [autos EXCEPT ![automation_id] = updated],
         runs |-> (run_id :> run_record) @@ rs,
         raised |-> NoError, run |-> <<run_record>>]
run_automation(autos, rs, ss, automation_id, engine, run_id, now) ==
    IF automation_id \notin DOMAIN autos
    THEN [automations |-> autos, runs |-> rs, raised |-> "KeyError", run |-> <<>>]
    ELSE
    LET automation == autos[automation_id]
        requested_engine == resolve_engine(engine, automation)
        steps_payload == DictGet(automation, "steps", <<>>)
        steps == [i \in 1..Len(steps_payload) |-> run_step(steps_payload[i], i - 1)]
        own_url == DictGet(automation, "target_url", None)
        session_id == DictGet(automation, "session_id", None)
        target_url == IF ~TruthyId(own_url) /\ session_id \in DOMAIN ss
                      THEN ss[session_id].url ELSE own_url
        launch_url == IF TruthyId(target_url)
                      THEN <<build_launch_url(target_url, session_id, automation_id,
                                              run_id, requested_engine)>>
                      ELSE <<>>
        updated == ("updated_at" :> now) @@ ("last_run_id" :> run_id) @@ automation
        name == DictGet(automation, "name", None)
        aborted == <<"Automation contains no executable steps; ",
                     "please add steps before running.">>
        initialised == <<"Automation initialised with ", Decimal[Len(steps) + 1],
                         " steps.">>
        run_record ==
            IF steps = <<>>
            THEN [run_id |-> run_id, automation_id |-> automation_id,
                  session_id |-> session_id, engine |-> requested_engine,
                  status |-> "failed", created_at |-> now, started_at |-> now,
                  completed_at |-> <<now>>, target_url |-> target_url,
                  launch_url |-> launch_url, steps_planned |-> 0,
                  steps_executed |-> 0, deterministic_steps |-> 0,
                  llm_steps |-> 0, hybrid_steps |-> 0, message |-> aborted,
                  logs |-> <<[timestamp |-> now, level |-> "error",
                              message |->
                                <<"Run aborted because no steps were available.">>]>>,
                  result |-> <<[success |-> FALSE, summary |-> aborted]>>,
                  steps |-> steps, progress |-> <<>>,
                  current_step_index |-> <<>>, completed_steps |-> <<>>,
                  automation_name |-> name, name |-> name]
            ELSE [run_id |-> run_id, automation_id |-> automation_id,
                  session_id |-> session_id, engine |-> requested_engine,
                  status |-> "running", created_at |-> now, started_at |-> now,
                  completed_at |-> <<>>, target_url |-> target_url,
                  launch_url |-> launch_url, steps_planned |-> Len(steps),
                  steps_executed |-> 0,
                  deterministic_steps |-> CountMode(steps, "deterministic"),
                  llm_steps |-> CountMode(steps, "llm"),
                  hybrid_steps |-> CountMode(steps, "hybrid"),
                  message |-> initialised,
                  logs |-> <<[timestamp |-> now, level |-> "info",
                              message |-> initialised]>>,
                  result |-> <<>>,
                  steps |-> steps, progress |-> <<>>,
                  current_step_index |-> <<>>, completed_steps |-> <<>>,
                  automation_name |-> name, name |-> name]
    IN  [automations |-> [autos EXCEPT ![automation_id] = updated],
         runs |-> (run_id :> run_record) @@ rs,
         raised |-> NoError, run |-> <<run_record>>]

\* sorted(completed_steps)
RECURSIVE SortedSeq(_)
SortedSeq(S) ==
    IF S = {} THEN <<>>
    ELSE LET least == CHOOSE x \in S : \A y \in S : x <= y
         IN  <<least>> \o SortedSeq(S \ {least})

\* session_manager.py:369-377
step_status(old, normalised_status) ==
    IF normalised_status \in {"started", "running"} THEN "running"
    ELSE IF normalised_status \in {"succeeded", "completed"} THEN "succeeded"
    ELSE IF normalised_status \in {"failed", "error"} THEN "failed"
    ELSE IF normalised_status = "skipped" THEN "skipped"
    ELSE old

\* session_manager.py:386-405: the run is finished by "completed", by
\* "succeeded" once every step is done, and by "failed" or "error"
finish_run_unstamped(run1, normalised_status, all_done, step_index, message, now) ==
    IF normalised_status = "completed" \/ (normalised_status = "succeeded" /\ all_done)
    THEN LET summary == IF TruthyStr(message) THEN message
                        ELSE <<"Automation completed successfully.">>
         IN  [run1 EXCEPT
                !.status = "succeeded",
                !.current_step_index = <<>>,
                !.result = <<[success |-> TRUE, summary |-> summary]>>,
                !.message = summary]
    ELSE IF normalised_status \in {"failed", "error"}
    THEN LET summary == IF TruthyStr(message) THEN message
                        ELSE <<"Automation failed.">>
         IN  [run1 EXCEPT
                !.status = "failed",
                !.current_step_index = <<step_index>>,
                !.result = <<[success |-> FALSE, summary |-> summary]>>,
                !.message = summary]
    ELSE run1
finish_run(run1, normalised_status, all_done, step_index, message, now) ==
    IF normalised_status = "completed" \/ (normalised_status = "succeeded" /\ all_done)
    THEN LET summary == IF TruthyStr(message) THEN message
                        ELSE <<"Automation completed successfully.">>
         IN  [run1 EXCEPT
                !.status = "succeeded",
                !.completed_at = <<now>>,
                !.current_step_index = <<>>,
                !.result = <<[success |-> TRUE, summary |-> summary]>>,
                !.message = summary]
    ELSE IF normalised_status \in {"failed", "error"}
    THEN LET summary == IF TruthyStr(message) THEN message
                        ELSE <<"Automation failed.">>
         IN  [run1 EXCEPT
                !.status = "failed",
                !.completed_at = <<now>>,
                !.current_step_index = <<step_index>>,
                !.result = <<[success |-> FALSE, summary |-> summary]>>,
                !.message = summary]
    ELSE run1

\* session_manager.py:329-417; details is always None
update_run_progress_needs_all(autos, rs, run_id, step_index, status, message, now) ==
    IF run_id \notin DOMAIN rs
    THEN [automations |-> autos, runs |-> rs, raised |-> "KeyError", run |-> <<>>]
    ELSE
    LET run == rs[run_id]
        normalised_status == IF TruthyId(status) THEN Lower(status) ELSE "unknown"
        steps == run.steps
    IN  IF step_index < 0 \/ (steps # <<>> /\ step_index >= Len(steps))
        THEN [automations |-> autos, runs |-> rs, raised |-> "IndexError",
              run |-> <<>>]
        ELSE
        LET failing == normalised_status \in {"failed", "error"}
            progress_entry ==
                [timestamp |-> now, step_index |-> step_index,
                 status |-> normalised_status, message |-> message,
                 details |-> EmptyMap]
            log_entry ==
                [timestamp |-> now,
                 level |-> IF failing THEN "error" ELSE "info",
                 message |-> IF TruthyStr(message) THEN message
                             ELSE <<"Step ", Decimal[step_index + 2], " ",
                                    normalised_status, ".">>,
                 details |-> EmptyMap]
            steps1 ==
                IF step_index < Len(steps)
                THEN [steps EXCEPT ![step_index + 1].status =
                                        step_status(@, normalised_status)]
                ELSE steps
            counted == normalised_status \in {"succeeded", "completed", "skipped"}
            before == Range(run.completed_steps)
            completed_steps == IF counted THEN before \cup {step_index} ELSE before
            run1 ==
                [run EXCEPT
                    !.progress = Append(@, progress_entry),
                    !.logs = Append(@, log_entry),
                    !.current_step_index =
                        IF normalised_status \in {"started", "running"}
                        THEN <<step_index>> ELSE @,
                    !.steps = steps1,
                    !.steps_executed =
                        IF counted /\ step_index \notin before
                        THEN Cardinality(completed_steps) ELSE @,
                    !.completed_steps = SortedSeq(completed_steps)]
            run2 ==
                IF normalised_status \in {"succeeded", "completed"}
                   /\ Cardinality(completed_steps) = Len(steps)
                THEN LET summary == IF TruthyStr(message) THEN message
                                    ELSE <<"Automation completed successfully.">>
                     IN  [run1 EXCEPT
                            !.status = "succeeded",
                            !.completed_at = <<now>>,
                            !.current_step_index = <<>>,
                            !.result = <<[success |-> TRUE, summary |-> summary]>>,
                            !.message = summary]
                ELSE IF failing
                THEN LET summary == IF TruthyStr(message) THEN message
                                    ELSE <<"Automation failed.">>
                     IN  [run1 EXCEPT
                            !.status = "failed",
                            !.completed_at = <<now>>,
                            !.current_step_index = <<step_index>>,
                            !.result = <<[success |-> FALSE, summary |-> summary]>>,
                            !.message = summary]
                ELSE run1
            automation_id == run.automation_id
        IN  [automations |->
                IF TruthyId(automation_id) /\ automation_id \in DOMAIN autos
                THEN [autos EXCEPT ![automation_id] =
                        ("updated_at" :> now) @@ ("last_run_status" :> run2.status) @@ @]
                ELSE autos,
             runs |-> [rs EXCEPT ![run_id] = run2],
             raised |-> NoError, run |-> <<run2>>]
update_run_progress(autos, rs, run_id, step_index, status, message, now) ==
    IF run_id \notin DOMAIN rs
    THEN [automations |-> autos, runs |-> rs, raised |-> "KeyError", run |-> <<>>]
    ELSE
    LET run == rs[run_id]
        normalised_status == IF TruthyId(status) THEN Lower(status) ELSE "unknown"
        steps == run.steps
    IN  IF step_index < 0 \/ (steps # <<>> /\ step_index >= Len(steps))
        THEN [automations |-> autos, runs |-> rs, raised |-> "IndexError",
              run |-> <<>>]
        ELSE
        LET failing == normalised_status \in {"failed", "error"}
            progress_entry ==
                [timestamp |-> now, step_index |-> step_index,
                 status |-> normalised_status, message |-> message,
                 details |-> EmptyMap]
            log_entry ==
                [timestamp |-> now,
                 level |-> IF failing THEN "error" ELSE "info",
                 message |-> IF TruthyStr(message) THEN message
                             ELSE <<"Step ", Decimal[step_index + 2], " ",
                                    normalised_status, ".">>,
                 details |-> EmptyMap]
            steps1 ==
                IF step_index < Len(steps)
                THEN [steps EXCEPT ![step_index + 1].status =
                                        step_status(@, normalised_status)]
                ELSE steps
            counted == normalised_status \in {"succeeded", "completed", "skipped"}
            before == Range(run.completed_steps)
            completed_steps == IF counted THEN before \cup {step_index} ELSE before
            run1 ==
                [run EXCEPT
                    !.progress = Append(@, progress_entry),
                    !.logs = Append(@, log_entry),
                    !.current_step_index =
                        IF normalised_status \in {"started", "running"}
                        THEN <<step_index>> ELSE @,
                    !.steps = steps1,
                    !.steps_executed =
                        IF counted /\ step_index \notin before
                        THEN Cardinality(completed_steps) ELSE @,
                    !.completed_steps = SortedSeq(completed_steps)]
            run2 == finish_run(run1, normalised_status,
                               Cardinality(completed_steps) = Len(steps),
                               step_index, message, now)
            automation_id == run.automation_id
        IN  [automations |->
                IF TruthyId(automation_id) /\ automation_id \in DOMAIN autos
                THEN [autos EXCEPT ![automation_id] =
                        ("updated_at" :> now) @@ ("last_run_status" :> run2.status) @@ @]
                ELSE autos,
             runs |-> [rs EXCEPT ![run_id] = run2],
             raised |-> NoError, run |-> <<run2>>]

\* session_manager.py:204-212 and 188-202 (the order of the list aside)
get_run(rs, run_id) == IF run_id \in DOMAIN rs THEN <<rs[run_id]>> ELSE <<>>
list_runs(rs, automation_id) ==
    {rs[r] : r \in {q \in DOMAIN rs : rs[q].automation_id = automation_id}}

\* ------------------------------------ ModelerService: /events, /flow/patch
\* service.py:140-144: the legacy session is created on first use
legacy_session(ss, legacy) ==
    IF legacy = None
    THEN LET session_id == SessionUuids[Cardinality(DOMAIN ss) + 1]
         IN  [sessions |-> create_session(ss, session_id, "legacy://session"),
              session_id |-> session_id]
    ELSE [sessions |-> ss, session_id |-> legacy]

\* service.py:316-319, POST /events
ingest(ss, legacy, cfg, payload, reply) ==
    LET l == legacy_session(ss, legacy)
        r == record_event(l.sessions, l.session_id, cfg, payload, reply)
    IN  [sessions |-> r.sessions, legacy |-> l.session_id, raised |-> r.raised,
         node |-> r.node]

\* session_manager.py:121-123
persist_schema(ss, session_id) ==
    [ss EXCEPT ![session_id].schema_file = to_dict(ss[session_id].recorder.graph)]

\* service.py:341-348: the intent built from the request's dict, the node's
\* fields where the dict has none; float() of the confidence can raise
patched_intent(node, d) ==
    LET confidence == DictGet(d, "confidence", Number(node.intent.confidence))
    IN  IF confidence.kind = "number"
        THEN [intent |-> <<FlowIntent(DictGet(d, "summary", node.intent.summary),
                                      DictGet(d, "semantic_action",
                                              node.intent.semantic_action),
                                      DictGet(d, "user_value", node.intent.user_value),
                                      confidence.tenths)>>,
              raised |-> NoError]
        ELSE [intent |-> <<>>,
              raised |-> IF confidence.kind = "null" THEN "TypeError" ELSE "ValueError"]

\* service.py:327-351, POST /flow/patch
flow_patch(ss, legacy, patch_in) ==
    LET l == IF TruthyId(patch_in.session_id)
             THEN [sessions |-> ss, session_id |-> patch_in.session_id]
             ELSE legacy_session(ss, legacy)
        legacy1 == IF TruthyId(patch_in.session_id) THEN legacy ELSE l.session_id
        session_id == l.session_id
    IN  IF session_id \notin DOMAIN l.sessions
        THEN [sessions |-> l.sessions, legacy |-> legacy1, raised |-> "404 session"]
        ELSE
        LET g == l.sessions[session_id].recorder.graph
        IN  IF patch_in.node_id \notin DOMAIN g.nodes
            THEN [sessions |-> l.sessions, legacy |-> legacy1, raised |-> "404 node"]
            ELSE
            LET node == g.nodes[patch_in.node_id]
                g1 == IF patch_in.selectors # <<>>
                      THEN update_node(g, patch_in.node_id, patch_in.selectors, <<>>).graph
                      ELSE g
                built == IF patch_in.intent # <<>>
                         THEN patched_intent(node, patch_in.intent[1])
                         ELSE [intent |-> <<>>, raised |-> NoError]
                g2 == IF patch_in.intent # <<>>
                      THEN update_node(g1, patch_in.node_id, <<>>, built.intent).graph
                      ELSE g1
                ss1 == [l.sessions EXCEPT ![session_id].recorder.graph = g1]
                ss2 == [l.sessions EXCEPT ![session_id].recorder.graph = g2]
            IN  IF built.raised # NoError
                THEN [sessions |-> ss1, legacy |-> legacy1, raised |-> built.raised]
                ELSE [sessions |-> persist_schema(ss2, session_id),
                      legacy |-> legacy1, raised |-> NoError]

\* ---------------------------------------- FlowChartGenerator and Editor
\* The charts leave out generated_at and model (a clock value and a constant);
\* a chart without a 'history' key has the empty history.
\* text[0].upper() and str.title() on the first token of a text
UpperFirst(tok) ==
    CASE tok = "click" -> "Click"
      [] tok = "input" -> "Input"
      [] tok = "navigate" -> "Navigate"
      [] tok = "wait_for" -> "Wait_for"
      [] tok = "assert" -> "Assert"
      [] tok = "other" -> "Other"
      [] tok = "edited" -> "Edited"
      [] OTHER -> tok
TitleCase(tok) == IF tok = "wait_for" THEN "Wait For" ELSE UpperFirst(tok)

\* x or y for texts
OrStr(x, y) == IF TruthyStr(x) THEN x ELSE y

\* llm.py:563-567
ensure_title(value, fallback) ==
    LET text == Strip(OrStr(value, OrStr(fallback, <<"Step">>)))
    IN  IF text = <<>> THEN <<"Step">> ELSE [text EXCEPT ![1] = UpperFirst(@)]

\* llm.py:570-576
ensure_description(value, fallback) ==
    LET text == Strip(OrStr(value, OrStr(fallback, <<>>)))
    IN  IF text = <<>> THEN <<"Describe the action.">>
        ELSE IF text[Len(text)] \notin {".", "!", "?"} THEN text \o <<".">>
        ELSE text

\* llm.py:579-590, on the mode strings a chart or a response carries
ensure_execution_mode(value) ==
    CASE value \in {None, ""} -> "deterministic"
      [] value \in {"deterministic", "llm", "hybrid"} -> value
      [] value \in {"LLM ", "use llm"} -> "llm"
      [] value = "Hybrid" -> "hybrid"
      [] OTHER -> "deterministic"

\* llm.py:340-345
suggest_mode(node) ==
    IF TruthyStr(node.semantic_action) \/ node.action_type \in {"other", "assert"}
    THEN "llm"
    ELSE IF node.selectors # <<>> THEN "deterministic"
    ELSE "llm"

\* sorted(..., key=order) and list.sort(key=order): stable, increasing
InsertByOrder(sorted, x) ==
    LET k == Cardinality({i \in 1..Len(sorted) : sorted[i].order <= x.order})
    IN  SubSeq(sorted, 1, k) \o <<x>> \o SubSeq(sorted, k + 1, Len(sorted))
RECURSIVE SortByOrderFrom(_, _, _)
SortByOrderFrom(items, i, acc) ==
    IF i > Len(items) THEN acc
    ELSE SortByOrderFrom(items, i + 1, InsertByOrder(acc, items[i]))
SortByOrder(items) == SortByOrderFrom(items, 1, <<>>)

\* llm.py:185-206
extract_nodes(g) ==
    SortByOrder([i \in 1..Len(g.nodeKeys) |->
        LET node == g.nodes[g.nodeKeys[i]]
        IN  [node_id |-> node.node_id,
             order |-> node.event.order,
             action_type |-> node.event.type,
             url |-> node.event.context.url,
             title |-> node.event.context.title,
             intent_summary |-> node.intent.summary,
             semantic_action |-> node.intent.semantic_action,
             user_value |-> node.intent.user_value,
             confidence |-> node.intent.confidence,
             selectors |-> node.selectors,
             selector_candidates |-> node.metadata.selector_candidates,
             payload |-> node.event.payload]])

fallback_title(node) == OrStr(node.intent_summary, <<TitleCase(node.action_type)>>)
fallback_description(node) == OrStr(node.intent_summary, <<node.action_type>>)

\* llm.py:301-338
fallback_chart(session_id, nodes, edges, reason) ==
    [session_id |-> session_id,
     steps |-> SortByOrder([i \in 1..Len(nodes) |->
         [node_id |-> nodes[i].node_id,
          order |-> nodes[i].order,
          title |-> ensure_title(NoneStr, fallback_title(nodes[i])),
          description |-> ensure_description(NoneStr, fallback_description(nodes[i])),
          execution_mode |-> ensure_execution_mode(suggest_mode(nodes[i])),
          dom_selectors |-> nodes[i].selectors,
          hints |-> [semantic_action |-> nodes[i].semantic_action,
                     user_value |-> nodes[i].user_value,
                     confidence |-> nodes[i].confidence],
          source |-> reason]]),
     edges |-> edges,
     source |-> [type |-> "heuristic", reason |-> reason],
     history |-> <<>>]

\* llm.py:257-299: the steps of the response that name a node of the graph
RECURSIVE chart_steps(_, _, _)
chart_steps(steps, i, baseline_nodes) ==
    IF i > Len(steps) THEN <<>>
    ELSE LET step == steps[i]
             known == {j \in 1..Len(baseline_nodes) :
                          baseline_nodes[j].node_id = step.node_id}
         IN  IF ~TruthyId(step.node_id) \/ known = {}
             THEN chart_steps(steps, i + 1, baseline_nodes)
             ELSE LET baseline ==
                          baseline_nodes[CHOOSE j \in known : \A k \in known : k <= j]
                  IN  <<[node_id |-> step.node_id,
                         order |-> baseline.order,
                         title |-> ensure_title(step.title, fallback_title(baseline)),
                         description |->
                             ensure_description(step.description,
                                                fallback_description(baseline)),
                         execution_mode |->
                             ensure_execution_mode(
                                 IF step.execution_mode \notin {None, ""}
                                 THEN step.execution_mode
                                 ELSE suggest_mode(baseline)),
                         dom_selectors |-> IF step.dom_selectors # <<>>
                                           THEN step.dom_selectors
                                           ELSE baseline.selectors,
                         hints |-> IF step.hints # <<>> THEN step.hints[1]
                                   ELSE EmptyMap,
                         source |-> "llm"]>>
                      \o chart_steps(steps, i + 1, baseline_nodes)

\* llm.py:150-183; the graph is handed back as generate leaves it
generate(session_id, g, api_key, reply) ==
    LET nodes == extract_nodes(g)
        edges == g.edges
        parsed_steps ==
            IF reply.kind = "parsed"
            THEN SortByOrder(chart_steps(reply.steps, 1, nodes)) ELSE <<>>
        chart ==
            IF nodes = <<>>
            THEN [session_id |-> session_id, steps |-> <<>>, edges |-> edges,
                  source |-> [type |-> "heuristic", reason |-> "empty-graph"],
                  history |-> <<>>]
            ELSE IF ~api_key
            THEN fallback_chart(session_id, nodes, edges, "missing-api-key")
            ELSE IF parsed_steps = <<>>
            THEN fallback_chart(session_id, nodes, edges, "llm-error")
            ELSE [session_id |-> session_id, steps |-> parsed_steps, edges |-> edges,
                  source |-> [type |-> "llm", provider |-> "anthropic"],
                  history |-> <<>>]
    IN  [graph |-> g, chart |-> chart]

\* llm.py:534-560
edit_fallback_restarts(chart, instructions, reason) ==
    [chart EXCEPT
        !.source = [type |-> "heuristic", reason |-> reason, operation |-> "edit"],
        !.history = <<[instructions |-> instructions, status |-> "fallback",
                       reason |-> reason]>>]
edit_fallback(chart, instructions, reason) ==
    [chart EXCEPT
        !.source = [type |-> "heuristic", reason |-> reason, operation |-> "edit"],
        !.history = Append(@, [instructions |-> instructions, status |-> "fallback",
                               reason |-> reason])]

\* f'generated-{index + 1}' (llm.py:458; index here counts from 1)
GeneratedIds == <<"generated-1", "generated-2", "generated-3">>

\* llm.py:456-499: one step of the response against the chart's steps
edit_step(step, index, baseline_steps) ==
    LET node_id == IF TruthyId(step.node_id) THEN step.node_id
                   ELSE GeneratedIds[index]
        known == {j \in 1..Len(baseline_steps) : baseline_steps[j].node_id = node_id}
        baseline ==
            IF known # {}
            THEN baseline_steps[CHOOSE j \in known : \A k \in known : k <= j]
            ELSE [node_id |-> node_id,
                  order |-> IF step.order # <<>> THEN step.order[1] ELSE index,
                  title |-> step.title,
                  description |-> step.description,
                  execution_mode |-> step.execution_mode,
                  dom_selectors |-> step.dom_selectors,
                  hints |-> IF step.hints # <<>> THEN step.hints[1] ELSE EmptyMap]
    IN  [node_id |-> node_id,
         order |-> IF step.order # <<>> THEN step.order[1] ELSE baseline.order,
         title |-> ensure_title(step.title, OrStr(baseline.title, baseline.description)),
         description |->
             ensure_description(step.description,
                                OrStr(baseline.description, baseline.title)),
         execution_mode |->
             ensure_execution_mode(IF step.execution_mode \notin {None, ""}
                                   THEN step.execution_mode
                                   ELSE baseline.execution_mode),
         dom_selectors |-> IF step.dom_selectors # <<>> THEN step.dom_selectors
                           ELSE baseline.dom_selectors,
         hints |-> IF step.hints # <<>> THEN step.hints[1] ELSE baseline.hints,
         source |-> "llm-edit"]

\* llm.py:360-404; raised is ValueError for blank instructions or a chart
\* without steps; the chart handed in is given back as edit leaves it
edit_in_place(chart, instructions, api_key, reply) ==
    LET instructions_text == Strip(instructions)
        fallback(reason) ==
            [flowchart |-> [chart EXCEPT !.history =
                               Append(@, [instructions |-> instructions_text,
                                          status |-> "fallback", reason |-> reason])],
             result |-> <<edit_fallback(chart, instructions_text, reason)>>,
             raised |-> NoError]
    IN  IF instructions_text = <<>> \/ chart.steps = <<>>
        THEN [flowchart |-> chart, result |-> <<>>, raised |-> "ValueError"]
        ELSE IF ~api_key THEN fallback("missing-api-key")
        ELSE IF reply.kind # "parsed" THEN fallback("llm-error")
        ELSE [flowchart |-> chart,
              result |->
                 <<[chart EXCEPT
                     !.steps = SortByOrder([i \in 1..Len(reply.steps) |->
                                   edit_step(reply.steps[i], i, chart.steps)]),
                     !.edges = IF reply.edges # <<>> THEN reply.edges[1] ELSE @,
                     !.source = [type |-> "llm", provider |-> "anthropic",
                                 operation |-> "edit"],
                     !.history = Append(@, [instructions |-> instructions_text,
                                            status |-> "success",
                                            notes |-> reply.notes])]>>,
              raised |-> NoError]
edit(chart, instructions, api_key, reply) ==
    LET instructions_text == Strip(instructions)
        fallback(reason) ==
            [flowchart |-> chart,
             result |-> <<edit_fallback(chart, instructions_text, reason)>>,
             raised |-> NoError]
    IN  IF instructions_text = <<>> \/ chart.steps = <<>>
        THEN [flowchart |-> chart, result |-> <<>>, raised |-> "ValueError"]
        ELSE IF ~api_key THEN fallback("missing-api-key")
        ELSE IF reply.kind # "parsed" THEN fallback("llm-error")
        ELSE [flowchart |-> chart,
              result |->
                 <<[chart EXCEPT
                     !.steps = SortByOrder([i \in 1..Len(reply.steps) |->
                                   edit_step(reply.steps[i], i, chart.steps)]),
                     !.edges = IF reply.edges # <<>> THEN reply.edges[1] ELSE @,
                     !.source = [type |-> "llm", provider |-> "anthropic",
                                 operation |-> "edit"],
                     !.history = Append(@, [instructions |-> instructions_text,
                                            status |-> "success",
                                            notes |-> reply.notes])]>>,
              raised |-> NoError]

\* the reverse constructor the persistence interface asks for: a graph built
\* from the shape to_dict produces; what the dict does not carry (the tail,
\* the event's time and DOM snapshot) is absent from the rebuilt graph
KeysOf(S) == CHOOSE s \in [1..Cardinality(S) -> S] : Range(s) = S

node_from_dict(d) ==
    [node_id |-> d.node_id,
     event |-> [event_id |-> d.event.event_id,
                order |-> d.event.order,
                occurred_at |-> None,
                type |-> d.event.type,
                context |-> [url |-> d.event.url, frame |-> d.event.frame,
                             title |-> d.event.title],
                dom_snapshot |-> <<>>,
                payload |-> d.event.payload],
     selectors |-> d.selectors,
     intent |-> FlowIntent(d.intent.summary, d.intent.semantic_action,
                           d.intent.user_value, d.intent.confidence),
     metadata |-> d.metadata]

from_dict(d) ==
    [nodes |-> [id \in DOMAIN d.nodes |-> node_from_dict(d.nodes[id])],
     nodeKeys |-> KeysOf(DOMAIN d.nodes),
     edges |-> d.edges,
     entry |-> d.entry,
     tail |-> None]

\* ------------------------------------------------------------ the inputs
NoDom == <<>>
SampleDom ==
    [tag |-> <<"b">>,
     attributes |-> [id |-> <<"s">>, role |-> <<"b">>],
     accessibleName |-> <<"S", " ", "o">>,
     innerText |-> <<"S">>,
     classList |-> <<<<"c">>, <<"p">>>>,
     xpath |-> NoneStr,
     cssPath |-> <<"b", "#", "s">>]

Payload(event_id, timestamp, category, type, dom, selector) ==
    [event_id |-> event_id, timestamp |-> timestamp, category |-> category,
     type |-> type, url |-> "https://example.com", frame |-> None, title |-> None,
     dom |-> dom, payload |-> [selector |-> selector]]

\* the test's sample event (tests/test_modeler.py:16-35) without a timestamp
GoodPayloads ==
    {Payload(id, None, "click", None, <<SampleDom>>, <<"b", "#", "s">>) : id \in Ids}

\* the same, and events whose timestamp is not ISO-8601
Payloads ==
    GoodPayloads
    \cup {Payload(id, "not-a-date", "input", None, NoDom, NoneStr) : id \in Ids}

\* the payloads of SpecMine: every shape of DOM snapshot the miner tells apart
LongText == [i \in 1..(MaxTextLen + 1) |-> "x"]
RichDoms ==
    {[tag |-> tag,
      attributes |-> [id |-> id, role |-> rn[1]],
      accessibleName |-> rn[2],
      innerText |-> text,
      classList |-> cc[2],
      xpath |-> xpath,
      cssPath |-> cc[1]] :
        tag \in {NoneStr, <<"b">>},
        id \in {NoneStr, <<"s">>},
        rn \in {<<NoneStr, NoneStr>>, <<<<"b">>, NoneStr>>, <<<<"b">>, <<"N">>>>},
        text \in {NoneStr, <<" ">>, <<" ", "S", "'", " ">>, LongText},
        cc \in {<<<<"b", "#", "s">>, <<<<"c">>, <<"p">>>>>>,
                <<NoneStr, <<>>>>,
                <<NoneStr, <<<<"c">>, <<"p">>, <<"q">>, <<"r">>>>>>},
        xpath \in {NoneStr, <<"/", "b">>}}
RichMetas ==
    {[event_id |-> "a", timestamp |-> None, category |-> "Click", type |-> None],
     [event_id |-> None, timestamp |-> "2024-07-18T12:00:10", category |-> None,
      type |-> "type"],
     [event_id |-> "", timestamp |-> "2024-07-18", category |-> "hover",
      type |-> "GOTO"],
     [event_id |-> "b", timestamp |-> "not-a-date", category |-> None, type |-> None]}
RichPayloads ==
    {Payload(m.event_id, m.timestamp, m.category, m.type, dom, selector) :
        m \in RichMetas,
        dom \in {NoDom} \cup {<<d>> : d \in RichDoms},
        selector \in {NoneStr, <<"b", "#", "s">>, <<"#", "s">>}}

WeightConfigs ==
    {DefaultWeights,
     [weight_id |-> 12, weight_role |-> 9, weight_text |-> 7, weight_css |-> 3],
     [weight_id |-> 5, weight_role |-> 5, weight_text |-> 5, weight_css |-> 5]}

NoReply == [kind |-> "raise"]
\* the events sent to the sessions of SpecSessions
SessionPayloads == {p \in Payloads : p.event_id \in EditIds}
\* the steps an LLM response to generate or edit can carry
ResponseStep(node_id, step_order, title, mode, selectors, hints) ==
    [node_id |-> node_id, order |-> step_order, title |-> title,
     description |-> NoneStr, execution_mode |-> mode,
     dom_selectors |-> selectors, hints |-> hints]
\* what the LLM answers to generate: a failure, no usable step, steps that
\* name the nodes a and b in reverse order and a node that does not exist
ChartReplies ==
    {[kind |-> "raise"],
     [kind |-> "parsed", steps |-> <<ResponseStep("zz", <<>>, NoneStr, None, <<>>, <<>>)>>],
     [kind |-> "parsed",
      steps |-> <<ResponseStep("b", <<>>, <<"fill the field">>, "LLM ", <<>>, <<>>),
                  ResponseStep("zz", <<>>, NoneStr, None, <<>>, <<>>),
                  ResponseStep("a", <<>>, NoneStr, None, <<<<"#", "s">>>>,
                               <<[note |-> "x"]>>)>>]}
\* what the LLM answers to edit: a failure, or steps (a new one without an
\* id first, then a rewritten a) with or without new edges
EditReplies ==
    {[kind |-> "raise"],
     [kind |-> "parsed",
      steps |-> <<ResponseStep(None, <<2>>, <<"wait">>, "Hybrid", <<>>, <<>>),
                  ResponseStep("a", <<1>>, NoneStr, None, <<>>, <<>>)>>,
      edges |-> <<>>, notes |-> <<"added a wait">>],
     [kind |-> "parsed",
      steps |-> <<ResponseStep("a", <<>>, <<"press">>, None, <<>>, <<EmptyMap>>)>>,
      edges |-> <<("a" :> <<>>)>>, notes |-> NoneStr]}
Instructions == {<<" ">>, <<" ", "a", "d", "d", " ">>}

\* what the LLM can answer in SpecLlm
ParsedObjects ==
    {[summary |-> <<"Submit the form">>, semantic_action |-> <<"submit">>,
      user_value |-> NoneStr, confidence |-> Number(9)],
     [summary |-> <<"Submit the form">>, confidence |-> Number(15)],
     [semantic_action |-> <<"submit">>, confidence |-> Number(0 - 5)],
     [summary |-> NoneStr, user_value |-> <<"x">>],
     [summary |-> <<"Submit the form">>, confidence |-> JsonNull],
     [summary |-> <<"Submit the form">>, confidence |-> JsonText],
     EmptyMap}
Replies ==
    {[kind |-> k] : k \in {"raise", "no_text", "unparsable", "not_object"}}
    \cup {[kind |-> "parsed", parsed |-> obj] : obj \in ParsedObjects}
\* the events of SpecLlm: the sample click on a button, a hover on an element
\* without an id, and an input event that carries no DOM snapshot
NameOnlyDom == [SampleDom EXCEPT !.attributes.id = NoneStr]
LlmPayloads ==
    {Payload("a", None, "click", None, <<SampleDom>>, <<"b", "#", "s">>),
     Payload("a", None, "hover", None, <<NameOnlyDom>>, NoneStr),
     Payload("b", None, "input", None, NoDom, NoneStr)}
DefaultConfig == [weights |-> DefaultWeights, api_key |-> FALSE]

\* the events posted to /events: two good ones and one with a bad timestamp
IngestPayloads ==
    {p \in SessionPayloads : p.timestamp = None \/ p.event_id = "a"}
\* the bodies of /flow/patch: selectors only (the test's, and an empty list),
\* intent only, both, neither, and a confidence float() rejects
PatchBodies ==
    {[selectors |-> << <<<<"#", "s", "u", "b">>>> >>, intent |-> <<>>],
     [selectors |-> << <<>> >>, intent |-> <<>>],
     [selectors |-> <<>>, intent |-> <<[summary |-> <<"edited">>]>>],
     [selectors |-> << <<<<"#", "x">>>> >>,
      intent |-> <<[user_value |-> <<"v">>, confidence |-> Number(7)]>>],
     [selectors |-> <<>>, intent |-> <<>>],
     [selectors |-> << <<<<"#", "x">>>> >>, intent |-> <<[confidence |-> JsonText]>>]}
PatchRequests ==
    {[session_id |-> None, node_id |-> id, selectors |-> b.selectors,
      intent |-> b.intent] : id \in EditIds, b \in PatchBodies}
    \cup {[session_id |-> "s4", node_id |-> "a", selectors |-> <<>>, intent |-> <<>>]}

\* the automations a client creates: one without steps, the flow chart of the
\* tests (one step; the manager is given no target_url), and two steps with
\* their own order, status and mode
AutomationPayloads ==
    {[session_id |-> None, name |-> "Empty", engine |-> None, steps |-> <<>>],
     [session_id |-> "s1", name |-> "Smoke", engine |-> "Hybrid",
      steps |-> <<[node_id |-> "a", order |-> 1, execution_mode |-> "deterministic"]>>],
     [session_id |-> "s1", name |-> "Two", engine |-> "turbo",
      target_url |-> "https://example.com",
      steps |-> <<[node_id |-> "a", execution_mode |-> "LLM"],
                  [node_id |-> "b", order |-> 7, status |-> "done",
                   execution_mode |-> None]>>]}
\* the automations of SpecProgress: no step, two steps
ProgressPayloads == {p \in AutomationPayloads : Len(p.steps) # 1}
EngineInputs == {None, "llm", "LLM", "turbo"}
AutomationIds == {AutomationUuids[i] : i \in 1..(MaxAutomations + 1)}
RunIds == {RunUuids[i] : i \in 1..(MaxRuns + 1)}
\* what an executor reports: every status the manager tells apart, one in
\* capitals, none at all, and one with a message
ProgressReports ==
    {[status |-> s, message |-> NoneStr] :
        s \in {"started", "succeeded", "Completed", "failed", "skipped", None}}
    \cup {[status |-> "completed", message |-> <<"Automation finished">>]}
StepIndexes == {0 - 1, 0, 1, 2}

\* the arguments of update_node: selectors only, intent only
Patches ==
    {[selectors |-> << <<<<"#", "s">>>> >>, intent |-> <<>>],
     [selectors |-> <<>>,
      intent |-> <<FlowIntent(<<"edited">>, NoneStr, NoneStr, 9)>>]}

\* ------------------------------------------------------------ the state
\* graph, order: SessionRecorder.graph and SessionRecorder._order
\* config:       the miner's weights and whether the annotator has an API key
\* last:         the last call, its arguments, what it raised, the graph before;
\*               for edit, the chart handed in, before and after the call
\* log:          the id and order of every node handed to add_node
\* budget:       how many calls of each kind are still explored
\* sessions:     SessionManager._sessions (SpecSessions): per session id its
\*               recorder, its event log and the two files written for it
\* flowchart:    SessionRecord.flowchart of the session (SpecChart), <<>> for None
\* call:         the record_browser_use_event call in flight, statement by
\*               statement (SpecSteps); Idle between calls
Idle ==
    [pc |-> "idle", payload |-> <<>>, reply |-> <<>>, event |-> <<>>,
     candidates |-> <<>>, intent |-> <<>>, pre |-> <<>>, pre_order |-> 0]

\* recorder.py:26-38 after _normalize_event: one statement of the call c
advance_eager(c, g, cfg) ==
    CASE c.pc = "mine" ->
            [call |-> [c EXCEPT !.pc = "annotate",
                                !.candidates = mine(c.event[1], cfg.weights)],
             graph |-> add_node(g, FlowNode(c.event[1], <<>>,
                                 FlowIntent(<<>>, NoneStr, NoneStr, 0))).graph,
             raised |-> NoError]
      [] c.pc = "annotate" ->
            [call |-> [c EXCEPT !.pc = "add_node",
                                !.intent = <<annotate(c.event[1], cfg.api_key,
                                                      c.reply[1])>>],
             graph |-> g, raised |-> NoError]
      [] c.pc = "add_node" ->
            LET added == add_node(g, FlowNode(c.event[1], c.candidates, c.intent[1]))
            IN  [call |-> Idle, graph |-> added.graph, raised |-> added.raised]
advance(c, g, cfg) ==
    CASE c.pc = "mine" ->
            [call |-> [c EXCEPT !.pc = "annotate",
                                !.candidates = mine(c.event[1], cfg.weights)],
             graph |-> g, raised |-> NoError]
      [] c.pc = "annotate" ->
            [call |-> [c EXCEPT !.pc = "add_node",
                                !.intent = <<annotate(c.event[1], cfg.api_key,
                                                      c.reply[1])>>],
             graph |-> g, raised |-> NoError]
      [] c.pc = "add_node" ->
            LET added == add_node(g, FlowNode(c.event[1], c.candidates, c.intent[1]))
            IN  [call |-> Idle, graph |-> added.graph, raised |-> added.raised]

Last(op, args, raised) ==
    [op |-> op, args |-> args, raised |-> raised, pre |-> graph,
     pre_order |-> order, payload |-> <<>>, reply |-> <<>>, node |-> <<>>,
     discard |-> {}, input |-> <<>>, input_after |-> <<>>,
     pre_runs |-> runs, result |-> <<>>]

StartWith(b, configs) ==
    /\ graph = EmptyGraph
    /\ order = 0
    /\ automations = EmptyMap
    /\ runs = EmptyMap
    /\ clock = 0
    /\ legacy_session_id = None
    /\ config \in configs
    /\ last = Last("init", <<>>, NoError)
    /\ log = <<>>
    /\ call = Idle
    /\ sessions = EmptyMap
    /\ flowchart = <<>>
    /\ budget = b

Start(records, edits, patches, prunes, configs) ==
    StartWith([records |-> records, edits |-> edits, patches |-> patches,
               prunes |-> prunes, charts |-> 0, calls |-> 0], configs)

Init == Start(MaxOrder, MaxEdits, 0, MaxPrunes, {DefaultConfig})
InitDeep == Start(MaxOrder, MaxEditsDeep, 0, MaxPrunes, {DefaultConfig})
InitRec == Start(MaxOrderRec, 0, MaxPatches, MaxPrunes, {DefaultConfig})
InitLlm ==
    Start(MaxOrder, 0, 0, 0,
          {[weights |-> DefaultWeights, api_key |-> k] : k \in BOOLEAN})
InitSteps == Start(MaxOrderRec, 0, 0, 0, {DefaultConfig})
InitSessions == Start(MaxOrderRec, 0, 0, 0, {DefaultConfig})
InitChart ==
    StartWith([records |-> MaxOrder, edits |-> 0, patches |-> 0, prunes |-> 0,
               charts |-> MaxCharts, calls |-> 0],
              {[weights |-> DefaultWeights, api_key |-> k] : k \in BOOLEAN})
InitEdits ==
    StartWith([records |-> MaxOrder, edits |-> 0, patches |-> 0, prunes |-> 0,
               charts |-> MaxCharts + 1, calls |-> 0],
              {[weights |-> DefaultWeights, api_key |-> k] : k \in BOOLEAN})
InitLegacy == Start(MaxOrder, 0, MaxPatches, 0, {DefaultConfig})
InitRuns ==
    StartWith([records |-> 0, edits |-> 0, patches |-> 0, prunes |-> 0,
               charts |-> 0, calls |-> MaxAutomations + MaxRuns], {DefaultConfig})
InitProgress ==
    StartWith([records |-> 0, edits |-> 0, patches |-> 0, prunes |-> 0,
               charts |-> 0, calls |-> MaxCalls], {DefaultConfig})
InitCycle == Start(MaxOrder, MaxEdits + 1, 0, MaxPrunes, {DefaultConfig})
InitSessionEdit == Start(MaxOrderRec, 0, 0, MaxPrunes, {DefaultConfig})
InitAll == Start(MaxOrder, MaxEdits, MaxPatches, MaxPrunes, {DefaultConfig})
InitMine ==
    Start(1, 0, 0, 0, {[weights |-> w, api_key |-> FALSE] : w \in WeightConfigs})

RecordBrowserUseEvent(p, reply) ==
    /\ budget.records > 0
    /\ LET r == record_browser_use_event(graph, order, config, p, reply)
       IN  /\ graph' = r.graph
           /\ order' = r.order
           /\ last' = [Last("record", <<>>, r.raised)
                          EXCEPT !.payload = <<p>>, !.reply = <<reply>>,
                                 !.node = r.node]
           /\ log' = IF r.node # <<>>
                     THEN Append(log, [id |-> r.node[1].node_id,
                                       order |-> r.node[1].event.order])
                     ELSE log
    /\ budget' = [budget EXCEPT !.records = @ - 1]
    /\ UNCHANGED <<config, call, sessions, flowchart, automations, runs, clock,
                   legacy_session_id>>

\* the same call statement by statement: _normalize_event moves the counter
\* and parses the timestamp (recorder.py:25, 43-65)
NormalizeEvent(p, reply) ==
    /\ call.pc = "idle"
    /\ budget.records > 0
    /\ order' = NextOrder(order, graph)
    /\ IF ParseFails(p.timestamp)
       THEN /\ call' = Idle
            /\ last' = [Last("record", <<>>, "ValueError")
                           EXCEPT !.payload = <<p>>, !.reply = <<reply>>]
       ELSE /\ call' = [Idle EXCEPT !.pc = "mine", !.payload = <<p>>,
                                    !.reply = <<reply>>,
                                    !.event = <<normalize_event(p, order')>>,
                                    !.pre = <<graph>>, !.pre_order = order]
            /\ UNCHANGED last
    /\ budget' = [budget EXCEPT !.records = @ - 1]
    /\ UNCHANGED <<graph, config, log, sessions, flowchart, automations, runs, clock,
                   legacy_session_id>>

\* recorder.py:26
MineSelectors ==
    /\ call.pc = "mine"
    /\ call' = advance(call, graph, config).call
    /\ graph' = advance(call, graph, config).graph
    /\ UNCHANGED <<order, config, last, log, budget, sessions, flowchart,
                 automations, runs, clock, legacy_session_id>>

\* recorder.py:27
AnnotateEvent ==
    /\ call.pc = "annotate"
    /\ call' = advance(call, graph, config).call
    /\ graph' = advance(call, graph, config).graph
    /\ UNCHANGED <<order, config, last, log, budget, sessions, flowchart,
                 automations, runs, clock, legacy_session_id>>

\* recorder.py:29-38
AddNode ==
    /\ call.pc = "add_node"
    /\ LET r == advance(call, graph, config)
           node == FlowNode(call.event[1], call.candidates, call.intent[1])
       IN  /\ call' = r.call
           /\ graph' = r.graph
           /\ last' = [op |-> "record", args |-> <<>>, raised |-> r.raised,
                       pre |-> call.pre[1], pre_order |-> call.pre_order,
                       payload |-> call.payload, reply |-> call.reply,
                       node |-> <<node>>, discard |-> {}, input |-> <<>>,
                       input_after |-> <<>>, pre_runs |-> runs, result |-> <<>>]
           /\ log' = Append(log, [id |-> node.node_id, order |-> node.event.order])
    /\ UNCHANGED <<order, config, budget, sessions, flowchart, automations, runs, clock,
                   legacy_session_id>>

\* SessionManager.create_session
CreateSession ==
    /\ Cardinality(DOMAIN sessions) < MaxSessions
    /\ LET session_id == SessionUuids[Cardinality(DOMAIN sessions) + 1]
       IN  /\ sessions' = create_session(sessions, session_id, "https://example.com")
           /\ last' = Last("create_session", <<session_id>>, NoError)
    /\ UNCHANGED <<graph, order, config, log, budget, call, flowchart,
                 automations, runs, clock, legacy_session_id>>

\* get_session(id).recorder.flow().prune_after(k): the session's graph edited
\* in place through the recorder's accessor; nothing is written to disk
PruneSession(session_id, k) ==
    /\ budget.prunes > 0
    /\ session_id \in DOMAIN sessions
    /\ sessions' = [sessions EXCEPT ![session_id].recorder.graph = prune_after(@, k)]
    /\ last' = [Last("prune_session", <<session_id, k>>, NoError)
                   EXCEPT !.discard = Discard(sessions[session_id].recorder.graph, k)]
    /\ budget' = [budget EXCEPT !.prunes = @ - 1]
    /\ UNCHANGED <<graph, order, config, log, call, flowchart, automations, runs,
                   clock, legacy_session_id>>

\* SessionManager.record_event; log keeps the calls that found their session
RecordEvent(session_id, p, reply) ==
    /\ budget.records > 0
    /\ LET r == record_event(sessions, session_id, config, p, reply)
       IN  /\ sessions' = r.sessions
           /\ last' = [Last("record_event", <<session_id>>, r.raised)
                          EXCEPT !.payload = <<p>>, !.reply = <<reply>>,
                                 !.node = r.node]
    /\ log' = IF session_id \in DOMAIN sessions
              THEN Append(log, [session |-> session_id, payload |-> p])
              ELSE log
    /\ budget' = [budget EXCEPT !.records = @ - 1]
    /\ UNCHANGED <<graph, order, config, call, flowchart, automations, runs, clock,
                   legacy_session_id>>

\* POST /sessions/{id}/flowchart (service.py:280-293): an existing chart is
\* returned unless regenerate is set; otherwise generate, then save_flowchart
GenerateFlowchart(regenerate, reply) ==
    /\ budget.charts > 0
    /\ IF flowchart # <<>> /\ ~regenerate
       THEN /\ UNCHANGED <<graph, flowchart>>
            /\ last' = Last("existing_flowchart", <<>>, NoError)
       ELSE LET r == generate("s1", graph, config.api_key, reply)
            IN  /\ graph' = r.graph
                /\ flowchart' = <<r.chart>>
                /\ last' = [Last("generate", <<>>, NoError) EXCEPT !.reply = <<reply>>]
    /\ budget' = [budget EXCEPT !.charts = @ - 1]
    /\ UNCHANGED <<order, config, log, call, sessions, automations, runs, clock,
                   legacy_session_id>>

\* POST /sessions/{id}/flowchart/edit (service.py:295-314): 404 without a
\* chart, 400 when edit raises ValueError; otherwise save_flowchart(updated)
EditFlowchart(instructions, reply) ==
    /\ budget.charts > 0
    /\ flowchart # <<>>
    /\ LET r == edit(flowchart[1], instructions, config.api_key, reply)
       IN  /\ flowchart' = IF r.raised = NoError THEN r.result ELSE <<r.flowchart>>
           /\ last' = [Last("edit", <<instructions>>, r.raised)
                          EXCEPT !.reply = <<reply>>, !.input = flowchart,
                                 !.input_after = <<r.flowchart>>]
    /\ budget' = [budget EXCEPT !.charts = @ - 1]
    /\ UNCHANGED <<graph, order, config, log, call, sessions, automations, runs, clock,
                   legacy_session_id>>

\* POST /events; log keeps the payloads of the calls that returned normally
Ingest(p, reply) ==
    /\ budget.records > 0
    /\ \E r \in {ingest(sessions, legacy_session_id, config, p, reply)} :
           /\ sessions' = r.sessions
           /\ legacy_session_id' = r.legacy
           /\ last' = [Last("ingest", <<r.legacy>>, r.raised)
                          EXCEPT !.payload = <<p>>, !.reply = <<reply>>,
                                 !.node = r.node,
                                 !.input = <<sessions>>]
           /\ log' = IF r.raised = NoError
                     THEN Append(log, [session |-> r.legacy, payload |-> p])
                     ELSE log
    /\ budget' = [budget EXCEPT !.records = @ - 1]
    /\ UNCHANGED <<graph, order, config, call, flowchart, automations, runs, clock>>

\* POST /flow/patch
FlowPatch(patch_in) ==
    /\ budget.patches > 0
    /\ \E r \in {flow_patch(sessions, legacy_session_id, patch_in)} :
           /\ sessions' = r.sessions
           /\ legacy_session_id' = r.legacy
           /\ last' = [Last("patch", <<r.legacy>>, r.raised)
                          EXCEPT !.payload = <<patch_in>>, !.input = <<sessions>>]
    /\ budget' = [budget EXCEPT !.patches = @ - 1]
    /\ UNCHANGED <<graph, order, config, log, call, flowchart, automations, runs,
                   clock>>

\* SessionManager.create_automation
CreateAutomation(payload) ==
    /\ budget.calls > 0
    /\ Cardinality(DOMAIN automations) < MaxAutomations
    /\ LET automation_id == AutomationUuids[Cardinality(DOMAIN automations) + 1]
       IN  /\ automations' = create_automation(automations, automation_id,
                                                clock + 1, payload)
           /\ last' = [Last("create_automation", <<automation_id>>, NoError)
                          EXCEPT !.result = <<automations'[automation_id]>>]
    /\ clock' = clock + 1
    /\ budget' = [budget EXCEPT !.calls = @ - 1]
    /\ UNCHANGED <<graph, order, config, log, call, sessions, flowchart, runs,
                   legacy_session_id>>

\* SessionManager.run_automation; the clock moves when a reading is stored
RunAutomation(automation_id, engine) ==
    /\ budget.calls > 0
    /\ Cardinality(DOMAIN runs) < MaxRuns
    /\ LET run_id == RunUuids[Cardinality(DOMAIN runs) + 1]
           r == run_automation(automations, runs, sessions, automation_id, engine,
                               run_id, clock + 1)
       IN  /\ automations' = r.automations
           /\ runs' = r.runs
           /\ clock' = IF r.raised = NoError THEN clock + 1 ELSE clock
           /\ last' = [Last("run_automation", <<automation_id, engine>>, r.raised)
                          EXCEPT !.result = r.run]
           /\ budget' = IF r.raised = NoError
                        THEN [budget EXCEPT !.calls = @ - 1] ELSE budget
    /\ UNCHANGED <<graph, order, config, log, call, sessions, flowchart,
                   legacy_session_id>>

\* SessionManager.update_run_progress; the clock moves when a reading is stored
UpdateRunProgress(run_id, step_index, report) ==
    /\ budget.calls > 0
    /\ LET r == update_run_progress(automations, runs, run_id, step_index,
                                    report.status, report.message, clock + 1)
       IN  /\ automations' = r.automations
           /\ runs' = r.runs
           /\ clock' = IF r.raised = NoError THEN clock + 1 ELSE clock
           /\ last' = [Last("update_run_progress", <<run_id, step_index>>, r.raised)
                          EXCEPT !.payload = IF r.raised = NoError THEN <<report>>
                                            ELSE <<>>,
                                 !.result = r.run]
           /\ budget' = IF r.raised = NoError
                        THEN [budget EXCEPT !.calls = @ - 1] ELSE budget
    /\ UNCHANGED <<graph, order, config, log, call, sessions, flowchart,
                   legacy_session_id>>

Connect(s, t) ==
    /\ budget.edits > 0
    /\ graph' = connect(graph, s, t)
    /\ last' = Last("connect", <<s, t>>, NoError)
    /\ budget' = [budget EXCEPT !.edits = @ - 1]
    /\ UNCHANGED <<order, config, log, call, sessions, flowchart,
                 automations, runs, clock, legacy_session_id>>

RemoveEdge(s, t) ==
    /\ budget.edits > 0
    /\ graph' = remove_edge(graph, s, t)
    /\ last' = Last("remove_edge", <<s, t>>, NoError)
    /\ budget' = [budget EXCEPT !.edits = @ - 1]
    /\ UNCHANGED <<order, config, log, call, sessions, flowchart,
                 automations, runs, clock, legacy_session_id>>

Rewire(s, old, new) ==
    /\ budget.edits > 0
    /\ graph' = rewire(graph, s, old, new)
    /\ last' = Last("rewire", <<s, old, new>>, NoError)
    /\ budget' = [budget EXCEPT !.edits = @ - 1]
    /\ UNCHANGED <<order, config, log, call, sessions, flowchart,
                 automations, runs, clock, legacy_session_id>>

UpdateNode(id, patch) ==
    /\ budget.patches > 0
    /\ LET r == update_node(graph, id, patch.selectors, patch.intent)
       IN  /\ graph' = r.graph
           /\ last' = Last("update_node", <<id>>, r.raised)
    /\ budget' = [budget EXCEPT !.patches = @ - 1]
    /\ UNCHANGED <<order, config, log, call, sessions, flowchart,
                 automations, runs, clock, legacy_session_id>>

PruneAfter(k) ==
    /\ budget.prunes > 0
    /\ graph' = prune_after(graph, k)
    /\ last' = [Last("prune_after", <<k>>, NoError)
                   EXCEPT !.discard = Discard(graph, k)]
    /\ budget' = [budget EXCEPT !.prunes = @ - 1]
    /\ UNCHANGED <<order, config, log, call, sessions, flowchart,
                 automations, runs, clock, legacy_session_id>>

\* recording and editing the edges of one session's graph
Next ==
    \/ \E p \in GoodPayloads : RecordBrowserUseEvent(p, NoReply)
    \/ \E s, t \in Ids : Connect(s, t)
    \/ \E s, t \in Ids : RemoveEdge(s, t)
    \/ \E s, old, new \in Ids : Rewire(s, old, new)
    \/ \E k \in Ids : PruneAfter(k)

\* recording (any timestamp), patching nodes and pruning
NextRec ==
    \/ \E p \in Payloads : RecordBrowserUseEvent(p, NoReply)
    \/ \E id \in Ids, patch \in Patches : UpdateNode(id, patch)
    \/ \E k \in Ids : PruneAfter(k)

\* one event of any shape on a fresh recorder
NextMine ==
    \E p \in RichPayloads : RecordBrowserUseEvent(p, NoReply)

\* recording with and without an API key, whatever the LLM answers
NextLlm ==
    \E p \in LlmPayloads, reply \in Replies : RecordBrowserUseEvent(p, reply)

\* one recorder, its calls statement by statement
NextSteps ==
    \/ \E p \in Payloads : NormalizeEvent(p, NoReply)
    \/ MineSelectors
    \/ AnnotateEvent
    \/ AddNode

\* the sessions of one SessionManager, their record_event calls interleaved
NextSessions ==
    \/ CreateSession
    \/ \E i \in 1..MaxSessions, p \in SessionPayloads :
          RecordEvent(SessionUuids[i], p, NoReply)

\* recording, then generating and editing the session's flow chart
NextChart ==
    \/ \E p \in LlmPayloads : RecordBrowserUseEvent(p, NoReply)
    \/ \E regenerate \in BOOLEAN, reply \in ChartReplies :
          GenerateFlowchart(regenerate, reply)
    \/ \E instructions \in Instructions, reply \in EditReplies :
          EditFlowchart(instructions, reply)

\* one chart generated and then edited more than once
NextEdits ==
    \/ \E p \in LlmPayloads : RecordBrowserUseEvent(p, NoReply)
    \/ \E reply \in ChartReplies : GenerateFlowchart(FALSE, reply)
    \/ \E instructions \in Instructions, reply \in EditReplies :
          EditFlowchart(instructions, reply)

\* the legacy endpoints of the service: events and patches of one session
NextLegacy ==
    \/ \E p \in IngestPayloads : Ingest(p, NoReply)
    \/ \E patch_in \in PatchRequests : FlowPatch(patch_in)

\* the automations of one SessionManager and the runs launched from them
NextRuns ==
    \/ CreateSession
    \/ \E payload \in AutomationPayloads : CreateAutomation(payload)
    \/ \E automation_id \in AutomationIds, engine \in EngineInputs :
          RunAutomation(automation_id, engine)

\* the runs of the automations and the progress an executor reports on them
NextProgress ==
    \/ \E payload \in ProgressPayloads : CreateAutomation(payload)
    \/ \E automation_id \in AutomationIds : RunAutomation(automation_id, None)
    \/ \E run_id \in RunIds, step_index \in StepIndexes, report \in ProgressReports :
          UpdateRunProgress(run_id, step_index, report)

\* every mutation of the graph: recording, editing edges, patching, pruning
NextAll ==
    \/ \E p \in {q \in GoodPayloads : q.event_id \in EditIds} :
          RecordBrowserUseEvent(p, NoReply)
    \/ \E s, t \in EditIds : Connect(s, t)
    \/ \E s, t \in EditIds : RemoveEdge(s, t)
    \/ \E s, old, new \in EditIds : Rewire(s, old, new)
    \/ \E id \in EditIds, patch \in Patches : UpdateNode(id, patch)
    \/ \E k \in EditIds : PruneAfter(k)

\* sessions whose graph is also pruned through recorder.flow()
NextSessionEdit ==
    \/ CreateSession
    \/ \E i \in 1..MaxSessions, p \in SessionPayloads :
          RecordEvent(SessionUuids[i], p, NoReply)
    \/ \E i \in 1..MaxSessions, k \in EditIds : PruneSession(SessionUuids[i], k)

\* recording two ids, edges that close cycles, and pruning
NextCycle ==
    \/ \E p \in {q \in GoodPayloads : q.event_id \in EditIds} :
          RecordBrowserUseEvent(p, NoReply)
    \/ \E s, t \in EditIds : Connect(s, t)
    \/ \E s, old, new \in EditIds : Rewire(s, old, new)
    \/ \E k \in EditIds : PruneAfter(k)

Spec == Init /\ [][Next]_vars
SpecSessionEdit == InitSessionEdit /\ [][NextSessionEdit]_vars
SpecCycle == InitCycle /\ [][NextCycle]_vars
SpecDeep == InitDeep /\ [][Next]_vars
SpecRec == InitRec /\ [][NextRec]_vars
SpecMine == InitMine /\ [][NextMine]_vars
SpecAll == InitAll /\ [][NextAll]_vars
SpecLlm == InitLlm /\ [][NextLlm]_vars
SpecSteps == InitSteps /\ [][NextSteps]_vars
SpecSessions == InitSessions /\ [][NextSessions]_vars
SpecChart == InitChart /\ [][NextChart]_vars
SpecEdits == InitEdits /\ [][NextEdits]_vars
SpecLegacy == InitLegacy /\ [][NextLegacy]_vars
SpecRuns == InitRuns /\ [][NextRuns]_vars
SpecProgress == InitProgress /\ [][NextProgress]_vars

\* ================================================================ claims
Succ(g, n) == Range(DictGet(g.edges, n, <<>>))
RECURSIVE Closure(_, _)
Closure(g, S) ==
    LET T == S \cup UNION {Succ(g, n) : n \in S}
    IN  IF T = S THEN S ELSE Closure(g, T)
\* the ids reachable from k by one or more edges
Downstream(g, k) == Closure(g, Succ(g, k))
HasEdge(g, s, t) == t \in Succ(g, s)
LogIds == {log[i].id : i \in 1..Len(log)}
Recorded == last.op = "record" /\ last.node # <<>>
Pruned == last.op = "prune_after"
RemovedNodes == (DOMAIN last.pre.nodes) \ (DOMAIN graph.nodes)

\* C1: starting from an empty graph, N >= 1 add_node calls with pairwise
\* distinct ids and no other mutation give a path graph: the i-th added node
\* has exactly the (i+1)-th as successor list, the last one has none, and
\* entry is the first added node.
OnlyDistinctAdds ==
    /\ Len(log) >= 1
    /\ budget.edits = MaxEdits /\ budget.prunes = MaxPrunes
    /\ \A i, j \in 1..Len(log) : i # j => log[i].id # log[j].id
C1_PathGraph ==
    OnlyDistinctAdds =>
        /\ graph.entry = log[1].id
        /\ \A i \in 1..(Len(log) - 1) : graph.edges[log[i].id] = <<log[i + 1].id>>
        /\ graph.edges[log[Len(log)].id] = <<>>
        /\ DOMAIN graph.edges = LogIds
        /\ DOMAIN graph.nodes = LogIds
C1_Witness == OnlyDistinctAdds /\ Len(log) >= 2

\* C2: prune_after(k) never removes k: when k is a node before the call, k
\* and its adjacency entry are still present after it, cycles included.
C2_PruneKeepsK ==
    (Pruned /\ last.args[1] \in DOMAIN last.pre.nodes) =>
        /\ last.args[1] \in DOMAIN graph.nodes
        /\ last.args[1] \in DOMAIN graph.edges

\* C3: prune_after(k) removes exactly the downstream set: a node other than k
\* is gone afterwards iff it was reachable from k by one or more edges, every
\* remaining node is unchanged, and the length drops by the size of that set.
DownstreamNodes(g, k) == (Downstream(g, k) \cap DOMAIN g.nodes) \ {k}
C3_PruneExact ==
    Pruned =>
        LET k == last.args[1]
            pre == last.pre
        IN  /\ \A n \in (DOMAIN pre.nodes) \ {k} :
                   n \notin DOMAIN graph.nodes <=> n \in Downstream(pre, k)
            /\ \A n \in DOMAIN graph.nodes : graph.nodes[n] = pre.nodes[n]
            /\ Cardinality(DOMAIN graph.nodes) =
                   Cardinality(DOMAIN pre.nodes) - Cardinality(DownstreamNodes(pre, k))

\* C4: after prune_after(k) no remaining adjacency list holds the id of a
\* node removed by that call, and no removed node keeps an adjacency entry.
C4_NoDangling ==
    Pruned =>
        /\ \A s \in DOMAIN graph.edges : Range(graph.edges[s]) \cap RemovedNodes = {}
        /\ RemovedNodes \cap DOMAIN graph.edges = {}
C4_Witness ==
    /\ Pruned
    /\ \E s \in (DOMAIN graph.edges) \ {last.args[1]} :
           Range(last.pre.edges[s]) \cap RemovedNodes # {}

\* C5: the order starts at 1, grows by one with every call of
\* record_browser_use_event, is strictly increasing and so unique over all
\* events ever recorded, and no value is assigned again after a prune
\* removed the node that carried it.
C5_OrderMonotonic ==
    /\ \A i \in 1..Len(log) : 1 <= log[i].order /\ log[i].order <= order
    /\ \A i, j \in 1..Len(log) : i < j => log[i].order < log[j].order
    /\ last.op = "record" => order = last.pre_order + 1
    /\ Recorded => last.node[1].event.order = order
    /\ \A n \in DOMAIN graph.nodes :
           \E i \in 1..Len(log) : log[i] = [id |-> n, order |-> graph.nodes[n].event.order]
C5_Witness ==
    /\ Recorded
    /\ \E i \in 1..(Len(log) - 1) :
           /\ log[i].id \notin DOMAIN last.pre.nodes
           /\ log[i].id \notin DOMAIN graph.nodes

\* C6: record_browser_use_event never raises on a timestamp that is absent
\* or not well-formed ISO-8601: occurred_at is the ingestion time and the
\* node is appended to the graph.
ImperfectTimestamp ==
    /\ last.op = "record"
    /\ last.payload[1].timestamp = None \/ ~IsoWellFormed(last.payload[1].timestamp)
C6_TimestampAbsorbed ==
    ImperfectTimestamp =>
        /\ last.raised = NoError
        /\ last.node # <<>>
        /\ last.node[1].event.occurred_at = UtcNow
        /\ last.node[1].node_id \in DOMAIN graph.nodes
        /\ graph.nodes[last.node[1].node_id] = last.node[1]

\* C7: the result of mine is sorted in descending order of score, holds no
\* two candidates with the same value, is drawn from the generated
\* candidates, and of the generated candidates that share a value the one
\* kept has the highest score; the node's selectors are its values in order.
Mined == Recorded /\ last.node[1].event.dom_snapshot # <<>>
MinedFrom ==
    Generate(last.node[1].event.dom_snapshot[1], last.node[1].event.payload.selector,
             config.weights)
MinedResult == last.node[1].metadata.selector_candidates
C7_RankedUnique ==
    /\ Mined =>
        LET gen == MinedFrom
            res == MinedResult
        IN  /\ \A i \in 1..(Len(res) - 1) : res[i].score >= res[i + 1].score
            /\ \A i, j \in 1..Len(res) : i # j => res[i].value # res[j].value
            /\ Range(res) \subseteq Range(gen)
            /\ \A i \in 1..Len(gen) : \E j \in 1..Len(res) :
                   res[j].value = gen[i].value /\ res[j].score >= gen[i].score
            /\ last.node[1].selectors = [i \in 1..Len(res) |-> res[i].value]
    /\ (Recorded /\ ~Mined) => last.node[1].selectors = <<>>
C7_Witness ==
    /\ Mined
    /\ Len(MinedResult) < Len(MinedFrom)
    /\ \E i \in 1..(Len(MinedFrom) - 1) : MinedFrom[i].score < MinedFrom[i + 1].score

\* C8: with the default weights, a snapshot with an id and an explicit hint
\* different from '#id' give selectors that begin with [hint, '#id'], and
\* the hint is not repeated when the captured cssPath equals it.
HintAndId ==
    /\ Mined
    /\ config.weights = DefaultWeights
    /\ TruthyStr(last.node[1].event.dom_snapshot[1].id)
    /\ TruthyStr(last.node[1].event.payload.selector)
    /\ last.node[1].event.payload.selector
           # <<"#">> \o last.node[1].event.dom_snapshot[1].id
C8_HintThenId ==
    HintAndId =>
        LET sel == last.node[1].selectors
            hint == last.node[1].event.payload.selector
        IN  /\ Len(sel) >= 2
            /\ sel[1] = hint
            /\ sel[2] = <<"#">> \o last.node[1].event.dom_snapshot[1].id
            /\ Cardinality({i \in 1..Len(sel) : sel[i] = hint}) = 1
C8_Witness ==
    /\ HintAndId
    /\ last.node[1].event.dom_snapshot[1].css_path = last.node[1].event.payload.selector

\* C9: update_node with a node id that is not in the graph raises KeyError
\* and leaves nodes, edges, entry and tail unchanged.
UpdatedAbsent == last.op = "update_node" /\ last.args[1] \notin DOMAIN last.pre.nodes
C9_UpdateAbsentRaises ==
    UpdatedAbsent => (last.raised = "KeyError" /\ graph = last.pre)
C9_Witness == UpdatedAbsent /\ DOMAIN graph.nodes # {}

\* C10: remove_edge and rewire on an edge that does not exist (the source
\* need not be a node) raise nothing and leave the graph unchanged, and
\* remove_edge applied twice gives the same graph as applied once.
C10_SilentNoOp ==
    /\ (last.op \in {"remove_edge", "rewire"}
            /\ ~HasEdge(last.pre, last.args[1], last.args[2]))
        => (last.raised = NoError /\ graph = last.pre)
    /\ \A s, t \in Ids :
           remove_edge(remove_edge(graph, s, t), s, t) = remove_edge(graph, s, t)

\* C11: no adjacency list ever holds the same successor twice, and connect
\* applied twice gives the same adjacency as applied once.
NoDuplicates(s) == \A i, j \in 1..Len(s) : i # j => s[i] # s[j]
C11_NoDuplicateSuccessors ==
    /\ \A s \in DOMAIN graph.edges : NoDuplicates(graph.edges[s])
    /\ \A s, t \in Ids : connect(connect(graph, s, t), s, t) = connect(graph, s, t)

\* C12: prune_after with an id that is not a node, and connect with a source
\* or a target that is not a node, raise a lookup error and leave the graph
\* unchanged.
C12_AbsentIdFailsFast ==
    /\ (Pruned /\ last.args[1] \notin DOMAIN last.pre.nodes)
        => (last.raised = "KeyError" /\ graph = last.pre)
    /\ (last.op = "connect"
            /\ (last.args[1] \notin DOMAIN last.pre.nodes
                    \/ last.args[2] \notin DOMAIN last.pre.nodes))
        => (last.raised = "KeyError" /\ graph = last.pre)

Returned == Recorded /\ last.raised = NoError
C14_ReturnedNode ==
    Returned =>
        LET node == last.node[1]
            event == node.event
            payload == last.payload[1]
            ranked == mine(event, config.weights)
        IN  /\ node.node_id = event.event_id
            /\ TruthyId(payload.event_id) => node.node_id = payload.event_id
            /\ node.selectors = [i \in 1..Len(ranked) |-> ranked[i].value]
            /\ payload.dom = <<>> => node.selectors = <<>>
            /\ node.metadata.selector_candidates = ranked
            /\ node.node_id \in DOMAIN graph.nodes
            /\ graph.nodes[node.node_id] = node
\* a returned node with three or more selectors, under its payload's event id
C14_Witness ==
    /\ Returned
    /\ Len(last.node[1].selectors) >= 3
    /\ last.node[1].node_id = last.payload[1].event_id
    /\ last.node[1].node_id \in DOMAIN graph.nodes

\* C15: without an API key annotate does not use the LLM (its result is the
\* same whatever the LLM would have answered), raises nothing, and returns
\* confidence 0.2, no semantic_action, no user_value and the event's short
\* description as summary: the type, then the tag and the id or else the name
\* when there is a snapshot.
NoKey == last.op = "record" /\ ~config.api_key
C15_NoKeyIntent ==
    NoKey =>
        /\ last.raised = NoError
        /\ last.node # <<>>
        /\ LET intent == last.node[1].intent
               event == last.node[1].event
               snap == event.dom_snapshot
           IN  /\ intent.confidence = 2
               /\ intent.semantic_action = NoneStr
               /\ intent.user_value = NoneStr
               /\ intent.summary = short_description(event)
               /\ snap = <<>> => intent.summary = <<event.type>>
               /\ snap # <<>> =>
                    LET ident == IF TruthyStr(snap[1].id) THEN snap[1].id
                                 ELSE snap[1].name
                    IN  intent.summary =
                            <<event.type, " -> ">> \o snap[1].tag \o <<" ">> \o ident
               /\ \A r \in Replies : annotate(event, config.api_key, r) = intent
\* no key, a snapshot without an id, and an LLM that would have answered
C15_Witness ==
    /\ NoKey
    /\ last.node # <<>>
    /\ last.node[1].event.dom_snapshot # <<>>
    /\ ~TruthyStr(last.node[1].event.dom_snapshot[1].id)
    /\ last.reply[1].kind = "parsed"

\* C16: with an API key, when the LLM call raises or its response has no
\* text or cannot be parsed, the node gets the fallback intent (the short
\* description, confidence at most 0.3), record_browser_use_event raises
\* nothing and the node is in the graph.
LlmFailures == {"raise", "no_text", "unparsable", "not_object"}
LlmFailed ==
    last.op = "record" /\ config.api_key /\ last.reply[1].kind \in LlmFailures
C16_AnnotateTotal ==
    LlmFailed =>
        /\ last.raised = NoError
        /\ last.node # <<>>
        /\ LET node == last.node[1]
           IN  /\ node.intent.summary = short_description(node.event)
               /\ node.intent.semantic_action = NoneStr
               /\ node.intent.user_value = NoneStr
               /\ node.intent.confidence <= 3
               /\ node.intent.confidence >= 0
               /\ node.node_id \in DOMAIN graph.nodes
               /\ graph.nodes[node.node_id] = node
               /\ log = Append(SubSeq(log, 1, Len(log) - 1),
                               [id |-> node.node_id, order |-> last.pre_order + 1])
\* the second event of a session is recorded although the response did not parse
C16_Witness ==
    /\ LlmFailed
    /\ last.reply[1].kind = "unparsable"
    /\ last.node # <<>>
    /\ last.node[1].intent.confidence = 3
    /\ Len(graph.nodeKeys) = 2

\* C17: the confidence of every intent attached to a node of the graph is
\* within [0, 1].
C17_ConfidenceInRange ==
    \A id \in DOMAIN graph.nodes :
        /\ graph.nodes[id].intent.confidence >= 0
        /\ graph.nodes[id].intent.confidence <= 10

\* C18: while a call is in flight its order is already assigned and the
\* graph is as it was before the call; annotation is done before add_node;
\* every node of the graph is complete (its selectors and its intent are the
\* mined and annotated ones); a call that fails before add_node leaves the
\* graph as it was; the finished call is record_browser_use_event as a whole.
InFlight == call.pc # "idle"
C18_VisibleWhenComplete ==
    /\ InFlight =>
        /\ graph = call.pre[1]
        /\ order = call.pre_order + 1
        /\ call.event[1].order = order
    /\ call.pc = "add_node" => call.intent # <<>>
    /\ \A id \in DOMAIN graph.nodes :
          LET node == graph.nodes[id]
          IN  /\ node = FlowNode(node.event, mine(node.event, config.weights),
                                 annotate(node.event, config.api_key, NoReply))
              /\ node.intent.summary # <<>>
    /\ (last.op = "record" /\ last.node = <<>>) =>
          (graph = last.pre /\ (~InFlight => order = last.pre_order + 1))
    /\ (Recorded /\ ~InFlight) =>
          LET whole == record_browser_use_event(last.pre, last.pre_order, config,
                                                last.payload[1], last.reply[1])
          IN  graph = whole.graph /\ order = whole.order /\ last.raised = whole.raised
\* the second call of a session is between mining and annotation, after a
\* first call that failed on its timestamp
C18_Witness ==
    /\ call.pc = "annotate"
    /\ call.candidates # <<>>
    /\ last.op = "record"
    /\ last.raised = "ValueError"
    /\ order = 2

\* C19: a create_session or record_event call leaves every other session
\* (its recorder's graph and counter, its event log, its files) as it was,
\* and after any interleaving each session's recorder and event log are what
\* its own calls alone produce on a fresh recorder.
RECURSIVE CallsOf(_, _)
CallsOf(calls, s) ==
    IF calls = <<>> THEN <<>>
    ELSE (IF Head(calls).session = s THEN <<Head(calls).payload>> ELSE <<>>)
             \o CallsOf(Tail(calls), s)
RECURSIVE Alone(_, _)
Alone(ss, calls) ==
    IF calls = <<>> THEN ss
    ELSE Alone(record_event(ss, "s1", config, Head(calls), NoReply).sessions,
               Tail(calls))
C19_SessionsIndependent ==
    [][/\ \A s \in DOMAIN sessions :
             s # last'.args[1] => (s \in DOMAIN sessions' /\ sessions'[s] = sessions[s])
       /\ \A s \in DOMAIN sessions' :
             sessions'[s] = Alone(create_session(EmptyMap, "s1", sessions'[s].url),
                                  CallsOf(log', s))["s1"]
      ]_vars
\* three calls, first session, second session, first session again, and both
\* sessions hold nodes
C19_Witness ==
    /\ Len(log) = 3
    /\ log[1].session = "s1" /\ log[2].session = "s2" /\ log[3].session = "s1"
    /\ DOMAIN sessions = {"s1", "s2"}
    /\ Len(sessions["s1"].recorder.graph.nodeKeys) = 2
    /\ Len(sessions["s2"].recorder.graph.nodeKeys) = 1

\* C20: generate leaves the graph as it was (nodes with their selectors and
\* intents, their order, edges, entry, tail) and edit leaves the chart it was
\* handed as it was (steps, edges, history), with and without an API key,
\* whatever the LLM answers, and when edit raises.
Generated == last.op = "generate"
Edited == last.op = "edit"
C21_NodesInEventOrder ==
    \A i, j \in 1..Len(graph_nodes(graph)) :
        i < j => graph_nodes(graph)[i].event.order < graph_nodes(graph)[j].event.order

\* C22: a recording session without explicit graph edits produces a path
\* graph: after any sequence of record_browser_use_event calls on a fresh
\* recorder (an event_id may repeat) the graph has no self-loop and no cycle,
\* and every node has at most one successor and at most one predecessor.
C22_RecordingIsPath ==
    \A n \in DOMAIN graph.nodes :
        /\ n \notin Downstream(graph, n)
        /\ Len(graph.edges[n]) <= 1
        /\ Cardinality({s \in DOMAIN graph.edges : HasEdge(graph, s, n)}) <= 1

\* C23: entry is the first node ever added: the first add_node sets it, and
\* it keeps that value across every later add_node, connect, remove_edge,
\* rewire, update_node and prune_after.
C23_EntryIsFirstAdded ==
    /\ graph.entry = IF log = <<>> THEN None ELSE log[1].id
    /\ last.pre.entry # None => graph.entry = last.pre.entry
\* a second node was added and then pruned away again; the entry is the first
C23_Witness ==
    /\ Pruned
    /\ RemovedNodes # {}
    /\ Len(log) = 2
    /\ log[2].id # log[1].id
    /\ graph.entry = log[1].id

Launched == last.op = "run_automation" /\ last.raised = NoError
\* the automation of the last run_automation call has at least one step
LaunchedWithSteps ==
    /\ Launched
    /\ DictGet(automations[last.args[1]], "steps", <<>>) # <<>>

Progressed == last.op = "update_run_progress" /\ last.raised = NoError
ReportedCompleted ==
    /\ Progressed
    /\ Lower(last.payload[1].status) = "completed"

\* C26: after update_run_progress with the status 'completed' on a valid step
\* index, the run's status is 'succeeded', completed_at is set,
\* current_step_index is cleared and result.success is true.
C26_CompletedFinishesRun ==
    ReportedCompleted =>
        LET run == runs[last.args[1]]
        IN  /\ run.status = "succeeded"
            /\ run.completed_at = <<clock>>
            /\ run.current_step_index = <<>>
            /\ run.result # <<>>
            /\ run.result[1].success
            /\ last.result = <<run>>
\* the first step of a two-step run was started and is then reported completed
C26_Witness ==
    /\ ReportedCompleted
    /\ runs[last.args[1]].steps_planned = 2
    /\ runs[last.args[1]].steps_executed = 1
    /\ last.pre_runs[last.args[1]].current_step_index = <<0>>
    /\ last.pre_runs[last.args[1]].status = "running"

Ingested == last.op = "ingest" /\ last.raised = NoError
Patched == last.op = "patch" /\ last.raised = NoError
\* a /flow/patch request, whatever it answered, that left the graph of the
\* legacy session different from what it was
PatchMutated ==
    /\ last.op = "patch"
    /\ legacy_session_id \in DOMAIN last.input[1]
    /\ sessions[legacy_session_id].recorder.graph
           # last.input[1][legacy_session_id].recorder.graph
GraphBefore == last.input[1][legacy_session_id].recorder.graph
GraphAfter == sessions[legacy_session_id].recorder.graph
SelectorsOnly == Patched /\ last.payload[1].selectors # <<>> /\ last.payload[1].intent = <<>>
IntentOnly == Patched /\ last.payload[1].selectors = <<>> /\ last.payload[1].intent # <<>>

\* C28: patching an existing node with only selectors replaces that node's
\* selectors with exactly the given list and leaves its intent and event,
\* every other node, all edges, entry and the node count unchanged; patching
\* with only intent leaves the selectors unchanged.
C28_PartialUpdate ==
    /\ SelectorsOnly =>
          LET id == last.payload[1].node_id
          IN  /\ GraphAfter.nodes[id].selectors = last.payload[1].selectors[1]
              /\ GraphAfter.nodes[id].intent = GraphBefore.nodes[id].intent
              /\ GraphAfter.nodes[id].event = GraphBefore.nodes[id].event
              /\ DOMAIN GraphAfter.nodes = DOMAIN GraphBefore.nodes
              /\ \A n \in DOMAIN GraphBefore.nodes \ {id} :
                    GraphAfter.nodes[n] = GraphBefore.nodes[n]
              /\ GraphAfter.edges = GraphBefore.edges
              /\ GraphAfter.entry = GraphBefore.entry
              /\ GraphAfter.tail = GraphBefore.tail
              /\ GraphAfter.nodeKeys = GraphBefore.nodeKeys
    /\ IntentOnly =>
          LET id == last.payload[1].node_id
          IN  /\ GraphAfter.nodes[id].selectors = GraphBefore.nodes[id].selectors
              /\ GraphAfter.nodes[id].event = GraphBefore.nodes[id].event
              /\ \A n \in DOMAIN GraphBefore.nodes \ {id} :
                    GraphAfter.nodes[n] = GraphBefore.nodes[n]
              /\ GraphAfter.edges = GraphBefore.edges
\* the mined selectors of the first of two nodes are replaced by the test's
\* single selector
C28_Witness ==
    /\ SelectorsOnly
    /\ Len(GraphAfter.nodeKeys) = 2
    /\ last.payload[1].node_id = GraphAfter.entry
    /\ Len(GraphBefore.nodes[GraphAfter.entry].selectors) > 1
    /\ Len(GraphAfter.nodes[GraphAfter.entry].selectors) = 1

\* the last request was an edit of a chart with steps, with instructions that
\* are not blank, by an editor that falls back: no API key, or the LLM call
\* failed
EditFellBack ==
    /\ last.op = "edit"
    /\ last.input[1].steps # <<>>
    /\ Strip(last.args[1]) # <<>>
    /\ (~config.api_key \/ last.reply[1].kind = "raise")
EditBlank == last.op = "edit" /\ Strip(last.args[1]) = <<>>

\* C29: editing a flow chart that has steps with non-empty instructions, when
\* the editor falls back, returns a chart with the same steps and edges, a
\* history that is the previous history plus exactly one entry carrying the
\* instructions, and source.operation = "edit"; blank instructions are
\* rejected with ValueError and the stored chart is left unchanged.
C29_EditFallback ==
    /\ EditFellBack =>
          /\ last.raised = NoError
          /\ flowchart[1].steps = last.input[1].steps
          /\ flowchart[1].edges = last.input[1].edges
          /\ Len(flowchart[1].history) = Len(last.input[1].history) + 1
          /\ SubSeq(flowchart[1].history, 1, Len(last.input[1].history))
                = last.input[1].history
          /\ flowchart[1].history[Len(flowchart[1].history)].instructions
                = Strip(last.args[1])
          /\ flowchart[1].source.operation = "edit"
    /\ EditBlank =>
          /\ last.raised = "ValueError"
          /\ flowchart = last.input
          /\ last.input_after = last.input
\* a second fallback edit of a chart with two steps and an edge: the history
\* already holds the entry of the first
C29_Witness ==
    /\ EditFellBack
    /\ config.api_key
    /\ Len(flowchart[1].steps) = 2
    /\ \E n \in DOMAIN flowchart[1].edges : flowchart[1].edges[n] # <<>>
    /\ Len(flowchart[1].history) = 2
\* blank instructions were rejected for a chart that had been edited before
C29_WitnessBlank ==
    /\ EditBlank
    /\ last.input[1].history # <<>>

\* the last call was prune_after(k) and the tail was among the removed nodes
PrunedTail == last.op = "prune_after" /\ last.pre.tail \in last.discard
\* the step is a record call that reaches add_node
AddsNode == last'.op = "record" /\ last'.node # <<>>

\* C30: after prune_after(k) has removed the node that was the tail, the tail
\* is k, and the next add_node(n) appends the edge k -> n and adds no edge
\* whose source is a removed node; when the tail was not removed, prune_after
\* leaves the tail unchanged.
C30_TailAfterPrune ==
    /\ [](last.op = "prune_after" =>
            graph.tail = IF last.pre.tail \in last.discard THEN last.args[1]
                         ELSE last.pre.tail)
    /\ [][PrunedTail /\ AddsNode =>
            LET k == last.args[1]
                n == last'.node[1].node_id
            IN  /\ last'.raised = NoError
                /\ k \in DOMAIN graph'.edges
                /\ InSeq(n, graph'.edges[k])
                /\ graph'.tail = n
                /\ \A s \in last.discard \ {k, n} : s \notin DOMAIN graph'.edges]_vars
\* what holds of the code: the same whenever k itself survived the prune
C30_TailAfterPruneKept ==
    /\ [](last.op = "prune_after" =>
            graph.tail = IF last.pre.tail \in last.discard THEN last.args[1]
                         ELSE last.pre.tail)
    /\ [][PrunedTail /\ AddsNode /\ last.args[1] \notin last.discard =>
            LET k == last.args[1]
                n == last'.node[1].node_id
            IN  /\ last'.raised = NoError
                /\ InSeq(n, graph'.edges[k])
                /\ graph'.tail = n
                /\ \A s \in last.discard \ {n} : s \notin DOMAIN graph'.edges]_vars

\* how often x occurs in the sequence s
Count(s, x) == Cardinality({i \in 1..Len(s) : s[i] = x})
\* the traversal of the last prune_after call
PruneTraversal == Traversal(last.pre, last.args[1])
\* some successor list of the pruned graph leads back into the traversal
CycleBelow(k) ==
    \E n \in Discard(last.pre, k) : \E j \in 1..Len(DictGet(last.pre.edges, n, <<>>)) :
        last.pre.edges[n][j] \in Discard(last.pre, k)

C32_HintFirstForAllWeights ==
    (Mined /\ TruthyStr(last.node[1].event.payload.selector)) =>
        /\ MinedResult # <<>>
        /\ MinedResult[1].value = last.node[1].event.payload.selector
        /\ MinedResult[1].origin = "browser_use"
\* what holds of the code: the same for weights that stay at or below the
\* hint's fixed score
C32_HintFirstBelowHintScore ==
    (/\ Mined
     /\ TruthyStr(last.node[1].event.payload.selector)
     /\ \A f \in DOMAIN config.weights : config.weights[f] <= ExplicitScore) =>
        /\ MinedResult # <<>>
        /\ MinedResult[1].value = last.node[1].event.payload.selector
        /\ MinedResult[1].origin = "browser_use"

\* C33: whenever entry is non-null it names a node of the node map
\* (to_dict()["entry"] is a key of to_dict()["nodes"] and entry_node() is not
\* None), in every state reachable by add_node, connect, remove_edge, rewire,
\* update_node and prune_after.
C33_EntryIsNode ==
    graph.entry # None =>
        /\ to_dict(graph).entry \in DOMAIN to_dict(graph).nodes
        /\ entry_node(graph) # <<>>

\* C34: add_node never fails: in every state reachable by add_node, connect,
\* remove_edge, rewire and prune_after the tail is unset or names a node that
\* still has an adjacency entry, and so the next record call succeeds.
C34_AddNodeNeverFails ==
    /\ graph.tail # None => (graph.tail \in DOMAIN graph.nodes
                              /\ graph.tail \in DOMAIN graph.edges)
    /\ last.op = "record" => last.raised = NoError

\* C35: the graph is closed in every reachable state: the adjacency map has
\* an entry for exactly the ids of the node map, and every successor in every
\* adjacency list is an id of the node map.
C35_GraphClosed ==
    /\ DOMAIN graph.edges = DOMAIN graph.nodes
    /\ \A s \in DOMAIN graph.edges : \A j \in 1..Len(graph.edges[s]) :
          graph.edges[s][j] \in DOMAIN graph.nodes

\* the step is a record_event call that raised
RecordEventRaised == last'.op = "record_event" /\ last'.raised # NoError
\* the step is a record_event call on session s that returned normally
RecordEventReturned(s) ==
    last'.op = "record_event" /\ last'.raised = NoError /\ last'.args[1] = s

\* C36: a record_event call that raises (unknown session, or a failure
\* inside the recorder) leaves the session's graph (nodes, edges, entry,
\* tail) and its event log unchanged, and the event log always has as many
\* entries as record_event calls returned normally: it starts empty and
\* grows by one with exactly those calls.
C36_FailedCallChangesNothing ==
    [][/\ RecordEventRaised =>
             /\ DOMAIN sessions' = DOMAIN sessions
             /\ \A s \in DOMAIN sessions :
                   /\ sessions'[s].recorder.graph = sessions[s].recorder.graph
                   /\ sessions'[s].events = sessions[s].events
       /\ \A s \in DOMAIN sessions' :
             Len(sessions'[s].events) =
                 (IF s \in DOMAIN sessions THEN Len(sessions[s].events) ELSE 0)
                 + (IF RecordEventReturned(s) THEN 1 ELSE 0)
      ]_vars

\* C37: in every state reachable by run_automation and update_run_progress a
\* run's status is one of "running", "succeeded", "failed", and completed_at
\* is unset exactly when the status is "running".
C37_StatusAndCompletedAt ==
    \A r \in DOMAIN runs :
        /\ runs[r].status \in {"running", "succeeded", "failed"}
        /\ (runs[r].completed_at = <<>>) <=> (runs[r].status = "running")
\* a run with steps that update_run_progress finished after a report that
\* left it running
C37_Witness ==
    /\ Progressed
    /\ \E r \in DOMAIN runs :
          /\ runs[r].steps # <<>>
          /\ runs[r].status \in {"succeeded", "failed"}
          /\ runs[r].completed_at # <<>>
          /\ Len(runs[r].progress) >= 2

Finished(run) == run.status \in {"succeeded", "failed"}

\* C38: a finished run stays finished: once a run's status is "succeeded" or
\* "failed", no later update_run_progress call changes its status, its
\* completed_at or its result.
C38_FinishedStaysFinished ==
    [][\A r \in DOMAIN runs :
          (Finished(runs[r]) /\ last'.op = "update_run_progress") =>
              /\ runs'[r].status = runs[r].status
              /\ runs'[r].completed_at = runs[r].completed_at
              /\ runs'[r].result = runs[r].result]_vars

\* the last call was update_run_progress on a known run with a step_index
\* outside 0 .. len(steps) - 1
IndexOutOfRange ==
    /\ last.op = "update_run_progress"
    /\ last.args[1] \in DOMAIN last.pre_runs
    /\ last.args[2] \notin 0..(Len(last.pre_runs[last.args[1]].steps) - 1)

\* C39: update_run_progress with a step_index outside 0 .. len(steps) - 1
\* raises IndexError and leaves the run unchanged, for every run, whether it
\* was created with steps or with none.
C39_OutOfRangeRaises ==
    IndexOutOfRange => (last.raised = "IndexError" /\ runs = last.pre_runs)
\* what holds of the code: the same for the runs that have steps, and for a
\* negative index on any run
C39_OutOfRangeRaisesWithSteps ==
    (IndexOutOfRange
       /\ (last.pre_runs[last.args[1]].steps # <<>> \/ last.args[2] < 0)) =>
        (last.raised = "IndexError" /\ runs = last.pre_runs)

\* the step indices reported as succeeded, completed or skipped
Reported(run) ==
    {run.progress[i].step_index :
        i \in {j \in 1..Len(run.progress) :
                  run.progress[j].status \in {"succeeded", "completed", "skipped"}}}

\* C40: in every reachable run state steps_executed equals the number of
\* distinct step indices reported as succeeded, completed or skipped, never
\* decreases from one update_run_progress call to the next, and never
\* exceeds steps_planned.
C40_StepsExecuted ==
    /\ [](\A r \in DOMAIN runs :
             /\ runs[r].steps_executed = Cardinality(Reported(runs[r]))
             /\ runs[r].steps_executed <= runs[r].steps_planned)
    /\ [][\A r \in DOMAIN runs :
             runs'[r].steps_executed >= runs[r].steps_executed]_vars
\* what holds of the code: the same for the runs that have steps
C40_StepsExecutedWithSteps ==
    /\ [](\A r \in DOMAIN runs :
             /\ runs[r].steps_executed = Cardinality(Reported(runs[r]))
             /\ runs[r].steps # <<>> => runs[r].steps_executed <= runs[r].steps_planned)
    /\ [][\A r \in DOMAIN runs :
             runs'[r].steps_executed >= runs[r].steps_executed]_vars
====
